---- MODULE Spec2Model ----
(***************************************************************************)
(* Order service (services/order-service): OrderController's five request  *)
(* handlers over DatabaseService (SQL store, tables Orders and OrderItems) *)
(* and ServiceBusService (event publisher).                                *)
(*                                                                         *)
(* A request is served by one handler; a handler is cut at its awaits on   *)
(* the store and on the publisher, which are the only points where other   *)
(* requests can interleave.  Everything a handler does between two awaits  *)
(* is one step.  Money is counted in integers: request prices in mills     *)
(* (1/1000 of the currency unit, so that prices below one cent can be      *)
(* written), DECIMAL(10,2) column values in cents.                         *)
(***************************************************************************)
EXTENDS Integers, Sequences, FiniteSets, TLC

\* ---------------------------------------------------------------- bounds
MaxOrders == 2        \* INSERTs into Orders attempted in one behaviour
MaxInFlight == 2      \* requests served concurrently
MaxRequests == 3      \* requests accepted in one behaviour

Reqs == 1..MaxInFlight

\* ---------------------------------------------------------------- values
Absent == "<absent>"
NoOrder == [id |-> 0]

\* req.user as authMiddleware sets it from the verified token
Alice == [id |-> "alice", email |-> "alice@example.com", roles |-> {}]
Bob == [id |-> "bob", email |-> "bob@example.com", roles |-> {}]
Root == [id |-> "root", email |-> "root@example.com", roles |-> {"admin"}]
Users == {Alice, Bob, Root}

Statuses == {"pending", "processing", "shipped", "delivered", "cancelled"}

VARIABLES
  orders,      \* committed rows of table Orders
  orderItems,  \* committed rows of table OrderItems
  tx,          \* per request: the uncommitted writes of its transaction
  nextId,      \* ids NEWID() has handed out to Orders rows
  pc,          \* per request: the await its handler is suspended at
  req,         \* per request: the HTTP request (op, user, params, body)
  loc,         \* per request: the handler's local variables
  resp,        \* per request: the HTTP response sent
  served,      \* requests accepted so far
  pool,        \* DatabaseService.pool: "null" until initialize() creates it
  storeAccess, \* per request: whether its handler has called the store
  bus,         \* ServiceBusService: client, topicSender, the clients created
  query        \* the storefront's query client: the query it is running

vars == <<orders, orderItems, tx, nextId, pc, req, loc, resp, served, pool, storeAccess,
          bus, query>>

\* ---------------------------------------------------------------- errors
\* utils/errors.ts: a BaseError carries statusCode; error.name stays "Error"
ValidationError(msg) ==
  [cls |-> "ValidationError", name |-> "Error", message |-> msg, statusCode |-> 400]
BadRequestError(msg) ==
  [cls |-> "BadRequestError", name |-> "Error", message |-> msg, statusCode |-> 400]
NotFoundError(msg) ==
  [cls |-> "NotFoundError", name |-> "Error", message |-> msg, statusCode |-> 404]

\* what the SQL driver rejects a query with
ConnectionError ==
  [cls |-> "Error", name |-> "ConnectionError", message |-> "Failed to connect", statusCode |-> 0]
RequestError ==
  [cls |-> "Error", name |-> "RequestError", message |-> "Timeout: Request failed to complete", statusCode |-> 0]
UniqueKeyError ==
  [cls |-> "Error", name |-> "RequestError", message |-> "Violation of UNIQUE KEY constraint", statusCode |-> 0]
DbErrors == {ConnectionError, RequestError}
\* what transaction.rollback() rejects with on a transaction that has ended
TransactionError ==
  [cls |-> "Error", name |-> "TransactionError", message |-> "Transaction has not begun",
   statusCode |-> 0]

\* what topicSender.sendMessages rejects with
ServiceBusError ==
  [cls |-> "Error", name |-> "ServiceBusError", message |-> "send failed", statusCode |-> 0]

\* requestId is sent only when the x-request-id header came
EnvelopeFields == {"error", "message", "timestamp", "path"}

ErrorResponse(status, error, message, extra) ==
  [status |-> status, error |-> error, message |-> message, body |-> NoOrder,
   fields |-> EnvelopeFields \cup extra]

\* middleware/errorHandler.ts: the first matching branch answers
errorHandler(error) ==
  IF error.cls = "ValidationError"
    THEN ErrorResponse(400, "Validation Error", error.message, {"details"})
  ELSE IF error.cls = "BadRequestError"
    THEN ErrorResponse(400, "Bad Request", error.message, {})
  ELSE IF error.cls = "NotFoundError"
    THEN ErrorResponse(404, "Not Found", error.message, {})
  ELSE IF error.name = "JsonWebTokenError"
    THEN ErrorResponse(401, "Unauthorized", "Invalid token", {})
  ELSE IF error.name = "TokenExpiredError"
    THEN ErrorResponse(401, "Unauthorized", "Token expired", {})
  ELSE IF error.name = "ConnectionError"
    THEN ErrorResponse(503, "Service Unavailable", "Database connection failed", {})
  ELSE IF error.message = "Violation of UNIQUE KEY constraint"
    THEN ErrorResponse(409, "Conflict", "Resource already exists", {})
  ELSE IF error.name = "ServiceBusError"
    THEN ErrorResponse(503, "Service Unavailable", "Message service temporarily unavailable", {})
  ELSE IF error.name = "RestError"
    THEN ErrorResponse(503, "Service Unavailable", "External service temporarily unavailable", {})
  ELSE IF error.statusCode >= 400 /\ error.statusCode < 500
    THEN ErrorResponse(error.statusCode, "Client Error", error.message, {})
  ELSE ErrorResponse(500, "Internal Server Error", "An unexpected error occurred", {})

\* res.status(code).json(order)
JsonResponse(status, body) ==
  [status |-> status, error |-> "", message |-> "", body |-> body, fields |-> {}]

NoResponse == [status |-> 0]

\* ---------------------------------------------------------------- money
\* a JS number bound to a sql.Decimal(10, 2) parameter: rounded to the cent
ToDecimal2(mills) == (mills + 5) \div 10

RECURSIVE SumTotalPrice(_)
\* orderItems.reduce((sum, item) => sum + item.totalPrice, 0)
SumTotalPrice(items) ==
  IF items = <<>> THEN 0 ELSE Head(items).totalPrice + SumTotalPrice(Tail(items))

\* value.orderItems.map(item => ({...item, totalPrice: item.quantity * item.unitPrice}))
WithTotalPrice(items) ==
  [i \in DOMAIN items |->
     [productId |-> items[i].productId, productName |-> items[i].productName,
      quantity |-> items[i].quantity,
      unitPrice |-> items[i].unitPrice,
      totalPrice |-> items[i].quantity * items[i].unitPrice]]

\* ---------------------------------------------------------------- validation
\* one element of orderItems against the item schema
ItemError(item) ==
  IF item.productId = Absent THEN "\"productId\" is required"
  ELSE IF item.productName = Absent THEN "\"productName\" is required"
  ELSE IF item.quantity < 1 THEN "\"quantity\" must be greater than or equal to 1"
  ELSE IF item.unitPrice <= 0 THEN "\"unitPrice\" must be a positive number"
  ELSE ""

\* createOrderSchema.validate(req.body): the first violation, "" when there is none.
\* Joi objects reject keys the schema does not name.
createOrderSchema(body) ==
  IF body.customerId = Absent THEN "\"customerId\" is required"
  ELSE IF body.customerEmail = Absent THEN "\"customerEmail\" is required"
  ELSE IF body.customerEmail = "not-an-email" THEN "\"customerEmail\" must be a valid email"
  ELSE IF body.shippingAddress = Absent THEN "\"shippingAddress\" is required"
  ELSE IF body.billingAddress = Absent THEN "\"billingAddress\" is required"
  ELSE IF body.currency # Absent /\ body.currency \notin {"USD", "EUR"}
    THEN "\"currency\" length must be 3 characters long"
  ELSE IF \E i \in DOMAIN body.orderItems : ItemError(body.orderItems[i]) # ""
    THEN LET i == CHOOSE j \in DOMAIN body.orderItems :
                    /\ ItemError(body.orderItems[j]) # ""
                    /\ \A k \in 1..(j - 1) : ItemError(body.orderItems[k]) = ""
         IN ItemError(body.orderItems[i])
  ELSE IF body.orderItems = <<>> THEN "\"orderItems\" must contain at least 1 items"
  ELSE IF body.unknownKeys # {} THEN "unknown key is not allowed"
  ELSE ""

\* updateOrderStatusSchema.validate(req.body)
updateOrderStatusSchema(body) ==
  IF body.status = Absent THEN "\"status\" is required"
  ELSE IF body.status \notin Statuses THEN "\"status\" must be one of the five statuses"
  ELSE ""

\* currency: Joi.string().length(3).default('USD')
CurrencyOf(body) == IF body.currency = Absent THEN "USD" ELSE body.currency

\* ---------------------------------------------------------------- store
NoTx == [order |-> NoOrder, items |-> {}]

\* SELECT o.*, oi.* FROM Orders o LEFT JOIN OrderItems oi ... WHERE o.id = @orderId,
\* assembled into one Order; null (NoOrder) when no row matches
dbGetOrderById(orderId) ==
  IF \E o \in orders : o.id = orderId
    THEN LET o == CHOOSE x \in orders : x.id = orderId
         IN [id |-> o.id, customerId |-> o.customerId, customerEmail |-> o.customerEmail,
             orderNumber |-> o.orderNumber, status |-> o.status,
             totalAmount |-> o.totalAmount, currency |-> o.currency,
             orderItems |-> {i \in orderItems : i.orderId = o.id}]
    ELSE NoOrder

\* the row INSERT INTO Orders ... OUTPUT INSERTED.* yields for the order data
OrderRow(id, order) ==
  [id |-> id, customerId |-> order.customerId, customerEmail |-> order.customerEmail,
   orderNumber |-> order.orderNumber, status |-> order.status,
   totalAmount |-> ToDecimal2(order.totalAmount), currency |-> order.currency]

\* the row INSERT INTO OrderItems yields for the n-th item of the order data
ItemRow(orderId, n, item) ==
  [orderId |-> orderId, n |-> n, productId |-> item.productId,
   productName |-> item.productName, quantity |-> item.quantity, unitPrice |-> ToDecimal2(item.unitPrice),
   totalPrice |-> ToDecimal2(item.totalPrice)]

\* the UPDATE refusing to leave a terminal status
dbSetStatus_forwardOnly(orderId, status) ==
  {IF o.id = orderId /\ o.status \notin {"delivered", "cancelled"}
     THEN [o EXCEPT !.status = status] ELSE o : o \in orders}

\* the UPDATE also zeroing the total of an order it cancels
dbSetStatus_zeroTotal(orderId, status) ==
  {IF o.id = orderId
     THEN [o EXCEPT !.status = status,
                    !.totalAmount = IF status = "cancelled" THEN 0 ELSE @]
     ELSE o : o \in orders}

\* UPDATE Orders SET status = @status, updatedAt = GETUTCDATE() WHERE id = @orderId
dbSetStatus(orderId, status) ==
  {IF o.id = orderId THEN [o EXCEPT !.status = status] ELSE o : o \in orders}

\* ---------------------------------------------------------------- requests
Idle == [op |-> "idle"]
NoLocals == [orderId |-> 0]

\* the handler of request r calls a method of DatabaseService
StoreCalled(r) == storeAccess' = [storeAccess EXCEPT ![r] = TRUE]

\* request r arrives at an idle slot
Accept(r, request) ==
  /\ pc[r] = "idle"
  /\ served < MaxRequests
  /\ served' = served + 1
  /\ req' = [req EXCEPT ![r] = request]
  /\ UNCHANGED <<pool, bus, query>>

\* the handler of request r ends: the response is sent
Respond(r, response) ==
  /\ pc' = [pc EXCEPT ![r] = "done"]
  /\ resp' = [resp EXCEPT ![r] = response]

\* createOrder taking the customer from the validated body instead of req.user
createOrder_payloadIdentity(r, user, body, orderNumber) ==
  /\ nextId + Cardinality({q \in Reqs : pc[q] = "insertOrder"}) <= MaxOrders
  /\ Accept(r, [op |-> "createOrder", user |-> user, body |-> body])
  /\ IF createOrderSchema(body) # ""
       THEN /\ Respond(r, errorHandler(ValidationError(createOrderSchema(body))))
            /\ UNCHANGED loc
       ELSE   LET items == WithTotalPrice(body.orderItems)
                  orderData ==
                    [customerId |-> body.customerId, customerEmail |-> body.customerEmail,
                     orderNumber |-> orderNumber, status |-> "pending",
                     totalAmount |-> SumTotalPrice(items),
                     currency |-> CurrencyOf(body), orderItems |-> items]
              IN /\ loc' = [loc EXCEPT ![r] = [orderId |-> 0, order |-> orderData, n |-> 0,
                                                 failed |-> "", fetched |-> NoOrder,
                                                 published |-> ""]]
                 /\ pc' = [pc EXCEPT ![r] = "insertOrder"]
                 /\ UNCHANGED resp
  /\ UNCHANGED <<orders, orderItems, tx, nextId, storeAccess>>

\* OrderController.createOrder up to its first await (transaction.begin())
createOrder(r, user, body, orderNumber) ==
  /\ nextId + Cardinality({q \in Reqs : pc[q] = "insertOrder"}) <= MaxOrders
  /\ Accept(r, [op |-> "createOrder", user |-> user, body |-> body])
  /\ IF createOrderSchema(body) # ""
       THEN /\ Respond(r, errorHandler(ValidationError(createOrderSchema(body))))
            /\ UNCHANGED loc
       ELSE   LET items == WithTotalPrice(body.orderItems)
                  orderData ==
                    [customerId |-> user.id, customerEmail |-> user.email,
                     orderNumber |-> orderNumber, status |-> "pending",
                     totalAmount |-> SumTotalPrice(items),
                     currency |-> CurrencyOf(body), orderItems |-> items]
              IN /\ loc' = [loc EXCEPT ![r] = [orderId |-> 0, order |-> orderData, n |-> 0,
                                                 failed |-> "", fetched |-> NoOrder,
                                                 published |-> ""]]
                 /\ pc' = [pc EXCEPT ![r] = "insertOrder"]
                 /\ UNCHANGED resp
  /\ UNCHANGED <<orders, orderItems, tx, nextId, storeAccess>>

\* DatabaseService.createOrder's catch: transaction.rollback(), then the error
\* goes to next(error).  loc.failed keeps the step the error came from.
createOrderRollback(r, error) ==
  /\ tx' = [tx EXCEPT ![r] = NoTx]
  /\ loc' = [loc EXCEPT ![r].failed = pc[r]]
  /\ Respond(r, errorHandler(error))
  /\ UNCHANGED <<orders, orderItems>>

\* the INSERT INTO Orders on a table whose orderNumber column is not UNIQUE
createOrderInsertOrder_noUniqueKey(r) ==
  /\ pc[r] = "insertOrder"
  /\ \/ \E error \in DbErrors : createOrderRollback(r, error) /\ UNCHANGED nextId
     \/ /\ tx' = [tx EXCEPT ![r].order = OrderRow(nextId, loc[r].order)]
        /\ loc' = [loc EXCEPT ![r].orderId = nextId]
        /\ nextId' = nextId + 1
        /\ pc' = [pc EXCEPT ![r] = "insertItem"]
        /\ UNCHANGED <<orders, orderItems, resp>>
  /\ StoreCalled(r)
  /\ UNCHANGED <<req, served, pool, bus, query>>

\* DatabaseService.createOrder: INSERT INTO Orders inside the transaction.
\* A row with the same orderNumber that another transaction has not yet
\* committed makes the insert wait; a committed one violates the UNIQUE key.
createOrderInsertOrder(r) ==
  /\ pc[r] = "insertOrder"
  /\ \A q \in Reqs \ {r} :
       IF tx[q].order.id = 0 THEN TRUE
       ELSE tx[q].order.orderNumber # loc[r].order.orderNumber
  /\ \/ \E error \in DbErrors : createOrderRollback(r, error) /\ UNCHANGED nextId
     \/ /\ \E o \in orders : o.orderNumber = loc[r].order.orderNumber
        /\ createOrderRollback(r, UniqueKeyError)
        /\ UNCHANGED nextId
     \/ /\ \A o \in orders : o.orderNumber # loc[r].order.orderNumber
        /\ tx' = [tx EXCEPT ![r].order = OrderRow(nextId, loc[r].order)]
        /\ loc' = [loc EXCEPT ![r].orderId = nextId]
        /\ nextId' = nextId + 1
        /\ pc' = [pc EXCEPT ![r] = "insertItem"]
        /\ UNCHANGED <<orders, orderItems, resp>>
  /\ StoreCalled(r)
  /\ UNCHANGED <<req, served, pool, bus, query>>

\* the INSERT INTO OrderItems issued on the pool instead of the transaction
createOrderInsertItem_onPool(r) ==
  /\ pc[r] = "insertItem"
  /\ \/ \E error \in DbErrors : createOrderRollback(r, error)
     \/ LET n == loc[r].n + 1
        IN /\ orderItems' =
                orderItems \cup {ItemRow(loc[r].orderId, n, loc[r].order.orderItems[n])}
           /\ loc' = [loc EXCEPT ![r].n = n]
           /\ pc' = [pc EXCEPT ![r] =
                       IF n = Len(loc[r].order.orderItems) THEN "commit" ELSE "insertItem"]
           /\ UNCHANGED <<orders, tx, resp>>
  /\ UNCHANGED <<req, nextId, served, pool, storeAccess, bus, query>>

\* DatabaseService.createOrder: one INSERT INTO OrderItems inside the transaction
createOrderInsertItem(r) ==
  /\ pc[r] = "insertItem"
  /\ \/ \E error \in DbErrors : createOrderRollback(r, error)
     \/ LET n == loc[r].n + 1
        IN /\ tx' = [tx EXCEPT ![r].items =
                       @ \cup {ItemRow(loc[r].orderId, n, loc[r].order.orderItems[n])}]
           /\ loc' = [loc EXCEPT ![r].n = n]
           /\ pc' = [pc EXCEPT ![r] =
                       IF n = Len(loc[r].order.orderItems) THEN "commit" ELSE "insertItem"]
           /\ UNCHANGED <<orders, orderItems, resp>>
  /\ UNCHANGED <<req, nextId, served, pool, storeAccess, bus, query>>

\* DatabaseService.createOrder: transaction.commit()
createOrderCommit(r) ==
  /\ pc[r] = "commit"
  /\ \/ \E error \in DbErrors : createOrderRollback(r, error)
     \/ /\ orders' = orders \cup {tx[r].order}
        /\ orderItems' = orderItems \cup tx[r].items
        /\ tx' = [tx EXCEPT ![r] = NoTx]
        /\ pc' = [pc EXCEPT ![r] = "refetch"]
        /\ UNCHANGED <<loc, resp>>
  /\ UNCHANGED <<req, nextId, served, pool, storeAccess, bus, query>>

\* the re-read without updateOrderStatus's `if (!updatedOrder)` after it
Refetch_nullPasses(r) ==
  /\ pc[r] = "refetch"
  /\ \/ \E error \in DbErrors :
          IF req[r].op = "createOrder"
            THEN /\ \E thrown \in {error, TransactionError} :
                      Respond(r, errorHandler(thrown))
                 /\ loc' = [loc EXCEPT ![r].failed = "refetch"]
            ELSE Respond(r, errorHandler(error)) /\ UNCHANGED loc
     \/ /\ loc' = [loc EXCEPT ![r].fetched = dbGetOrderById(loc[r].orderId)]
        /\ pc' = [pc EXCEPT ![r] = "publish"]
        /\ UNCHANGED resp
  /\ UNCHANGED <<orders, orderItems, tx, nextId, req, served, pool, storeAccess, bus, query>>

\* the order DatabaseService re-reads after its write (createOrder's
\* completeOrder, updateOrderStatus's return value).  A failed re-read
\* rejects the store call: the write before it stays as it is.  In
\* createOrder the catch then calls rollback() on the committed transaction;
\* the error that reaches the handler is the read's or the rollback's.
Refetch(r) ==
  /\ pc[r] = "refetch"
  /\ \/ \E error \in DbErrors :
          IF req[r].op = "createOrder"
            THEN /\ \E thrown \in {error, TransactionError} :
                      Respond(r, errorHandler(thrown))
                 /\ loc' = [loc EXCEPT ![r].failed = "refetch"]
            ELSE Respond(r, errorHandler(error)) /\ UNCHANGED loc
     \/ LET order == dbGetOrderById(loc[r].orderId)
        IN IF order.id = 0 /\ req[r].op = "updateOrderStatus"
             THEN Respond(r, errorHandler(NotFoundError("Order not found"))) /\ UNCHANGED loc
             ELSE /\ loc' = [loc EXCEPT ![r].fetched = order]
                  /\ pc' = [pc EXCEPT ![r] = "publish"]
                  /\ UNCHANGED resp
  /\ UNCHANGED <<orders, orderItems, tx, nextId, req, served, pool, storeAccess, bus, query>>

SuccessStatus(op) == IF op = "createOrder" THEN 201 ELSE 200

\* the handler without the try/catch around publishOrderEvent
AfterPublish_uncaught(r, outcome) ==
  /\ loc' = [loc EXCEPT ![r].published = outcome]
  /\ IF outcome = "failed"
       THEN Respond(r, errorHandler(ServiceBusError))
       ELSE Respond(r, JsonResponse(SuccessStatus(req[r].op), loc[r].fetched))

\* what the handler does once publishOrderEvent has settled with `outcome`:
\* a rejection is caught and logged, and the order read before is sent
AfterPublish(r, outcome) ==
  /\ loc' = [loc EXCEPT ![r].published = outcome]
  /\ Respond(r, JsonResponse(SuccessStatus(req[r].op), loc[r].fetched))

\* ServiceBusService.publishOrderEvent awaited inside the handler's try/catch
publishOrderEvent(r) ==
  /\ pc[r] = "publish"
  /\ \/ loc[r].fetched.id # 0 /\ AfterPublish(r, "ok")
     \/ AfterPublish(r, "failed")
  /\ UNCHANGED <<orders, orderItems, tx, nextId, req, served, pool, storeAccess, bus, query>>

\* updateOrderStatus validating the body before it looks at the caller's roles
updateOrderStatus_validateFirst(r, user, orderId, body) ==
  /\ Accept(r, [op |-> "updateOrderStatus", user |-> user, orderId |-> orderId,
                body |-> body])
  /\ IF updateOrderStatusSchema(body) # ""
       THEN /\ Respond(r, errorHandler(ValidationError(updateOrderStatusSchema(body))))
            /\ UNCHANGED loc
     ELSE IF "admin" \notin user.roles
       THEN /\ Respond(r, [status |-> 403, error |-> "Forbidden",
                           message |-> "Admin access required", body |-> NoOrder,
                           fields |-> {"error", "message"}])
            /\ UNCHANGED loc
     ELSE /\ loc' = [loc EXCEPT ![r] = [orderId |-> orderId, status |-> body.status,
                                         fetched |-> NoOrder, published |-> ""]]
          /\ pc' = [pc EXCEPT ![r] = "update"]
          /\ UNCHANGED resp
  /\ UNCHANGED <<orders, orderItems, tx, nextId, storeAccess>>

\* OrderController.updateOrderStatus up to its first await (the UPDATE)
updateOrderStatus(r, user, orderId, body) ==
  /\ Accept(r, [op |-> "updateOrderStatus", user |-> user, orderId |-> orderId,
                body |-> body])
  /\ IF "admin" \notin user.roles
       THEN /\ Respond(r, [status |-> 403, error |-> "Forbidden",
                           message |-> "Admin access required", body |-> NoOrder,
                           fields |-> {"error", "message"}])
            /\ UNCHANGED loc
     ELSE IF updateOrderStatusSchema(body) # ""
       THEN /\ Respond(r, errorHandler(ValidationError(updateOrderStatusSchema(body))))
            /\ UNCHANGED loc
     ELSE /\ loc' = [loc EXCEPT ![r] = [orderId |-> orderId, status |-> body.status,
                                         fetched |-> NoOrder, published |-> ""]]
          /\ pc' = [pc EXCEPT ![r] = "update"]
          /\ UNCHANGED resp
  /\ UNCHANGED <<orders, orderItems, tx, nextId, storeAccess>>

\* the UPDATE giving way to a request that wrote the same order and has not
\* answered yet: the later writer is rejected with a conflict
dbUpdateOrderStatus_firstWins(r) ==
  /\ pc[r] = "update"
  /\ \/ \E error \in DbErrors :
          Respond(r, errorHandler(error)) /\ UNCHANGED orders
     \/ IF \E q \in Reqs \ {r} : pc[q] \in {"refetch", "publish"}
                                   /\ loc[q].orderId = loc[r].orderId
          THEN Respond(r, errorHandler(UniqueKeyError)) /\ UNCHANGED orders
          ELSE /\ orders' = dbSetStatus(loc[r].orderId, loc[r].status)
               /\ pc' = [pc EXCEPT ![r] = "refetch"]
               /\ UNCHANGED resp
  /\ StoreCalled(r)
  /\ UNCHANGED <<orderItems, tx, nextId, req, loc, served, pool, bus, query>>

\* DatabaseService.updateOrderStatus: the UPDATE statement
dbUpdateOrderStatus(r) ==
  /\ pc[r] = "update"
  /\ \/ \E error \in DbErrors :
          Respond(r, errorHandler(error)) /\ UNCHANGED orders
     \/ /\ orders' = dbSetStatus(loc[r].orderId, loc[r].status)
        /\ pc' = [pc EXCEPT ![r] = "refetch"]
        /\ UNCHANGED resp
  /\ StoreCalled(r)
  /\ UNCHANGED <<orderItems, tx, nextId, req, loc, served, pool, bus, query>>

\* the handler's locals once currentOrder has been read
CancelLocals(orderId, currentOrder) ==
  [orderId |-> orderId, status |-> "cancelled", currentOrder |-> currentOrder,
   fetched |-> NoOrder, published |-> ""]

\* cancelOrder without its ownership check
cancelOrder_anyCaller(r, user, orderId) ==
  /\ Accept(r, [op |-> "cancelOrder", user |-> user, orderId |-> orderId])
  /\ \/ \E error \in DbErrors : Respond(r, errorHandler(error)) /\ UNCHANGED loc
     \/ LET currentOrder == dbGetOrderById(orderId)
        IN IF currentOrder.id = 0
             THEN Respond(r, errorHandler(NotFoundError("Order not found"))) /\ UNCHANGED loc
           ELSE /\ loc' = [loc EXCEPT ![r] = CancelLocals(orderId, currentOrder)]
                /\ IF currentOrder.status = "cancelled"
                     THEN Respond(r, errorHandler(BadRequestError("Order is already cancelled")))
                   ELSE IF currentOrder.status \in {"shipped", "delivered"}
                     THEN Respond(r, errorHandler(
                            BadRequestError("Cannot cancel shipped or delivered orders")))
                   ELSE pc' = [pc EXCEPT ![r] = "update"] /\ UNCHANGED resp
  /\ StoreCalled(r)
  /\ UNCHANGED <<orders, orderItems, tx, nextId>>

\* cancelOrder without its check for shipped and delivered orders
cancelOrder_shippedToo(r, user, orderId) ==
  /\ Accept(r, [op |-> "cancelOrder", user |-> user, orderId |-> orderId])
  /\ \/ \E error \in DbErrors : Respond(r, errorHandler(error)) /\ UNCHANGED loc
     \/ LET currentOrder == dbGetOrderById(orderId)
        IN IF currentOrder.id = 0
             THEN Respond(r, errorHandler(NotFoundError("Order not found"))) /\ UNCHANGED loc
           ELSE IF "admin" \notin user.roles /\ currentOrder.customerId # user.id
             THEN Respond(r, errorHandler(NotFoundError("Order not found"))) /\ UNCHANGED loc
           ELSE /\ loc' = [loc EXCEPT ![r] = CancelLocals(orderId, currentOrder)]
                /\ IF currentOrder.status = "cancelled"
                     THEN Respond(r, errorHandler(BadRequestError("Order is already cancelled")))
                   ELSE pc' = [pc EXCEPT ![r] = "update"] /\ UNCHANGED resp
  /\ StoreCalled(r)
  /\ UNCHANGED <<orders, orderItems, tx, nextId>>

\* cancelOrder publishing order.cancelled before the UPDATE
cancelOrder_publishFirst(r, user, orderId) ==
  /\ Accept(r, [op |-> "cancelOrder", user |-> user, orderId |-> orderId])
  /\ \/ \E error \in DbErrors : Respond(r, errorHandler(error)) /\ UNCHANGED loc
     \/ LET currentOrder == dbGetOrderById(orderId)
        IN IF currentOrder.id = 0
             THEN Respond(r, errorHandler(NotFoundError("Order not found"))) /\ UNCHANGED loc
           ELSE IF "admin" \notin user.roles /\ currentOrder.customerId # user.id
             THEN Respond(r, errorHandler(NotFoundError("Order not found"))) /\ UNCHANGED loc
           ELSE IF currentOrder.status = "cancelled"
             THEN /\ loc' = [loc EXCEPT ![r] = CancelLocals(orderId, currentOrder)]
                  /\ Respond(r, errorHandler(BadRequestError("Order is already cancelled")))
           ELSE IF currentOrder.status \in {"shipped", "delivered"}
             THEN /\ loc' = [loc EXCEPT ![r] = CancelLocals(orderId, currentOrder)]
                  /\ Respond(r, errorHandler(
                       BadRequestError("Cannot cancel shipped or delivered orders")))
           ELSE /\ loc' = [loc EXCEPT ![r] =
                             [CancelLocals(orderId, currentOrder) EXCEPT !.published = "ok"]]
                /\ pc' = [pc EXCEPT ![r] = "update"]
                /\ UNCHANGED resp
  /\ StoreCalled(r)
  /\ UNCHANGED <<orders, orderItems, tx, nextId>>

\* OrderController.cancelOrder from its getOrderById to its next await (the UPDATE)
cancelOrder(r, user, orderId) ==
  /\ Accept(r, [op |-> "cancelOrder", user |-> user, orderId |-> orderId])
  /\ \/ \E error \in DbErrors : Respond(r, errorHandler(error)) /\ UNCHANGED loc
     \/ LET currentOrder == dbGetOrderById(orderId)
        IN IF currentOrder.id = 0
             THEN Respond(r, errorHandler(NotFoundError("Order not found"))) /\ UNCHANGED loc
           ELSE IF "admin" \notin user.roles /\ currentOrder.customerId # user.id
             THEN Respond(r, errorHandler(NotFoundError("Order not found"))) /\ UNCHANGED loc
           ELSE /\ loc' = [loc EXCEPT ![r] = CancelLocals(orderId, currentOrder)]
                /\ IF currentOrder.status = "cancelled"
                     THEN Respond(r, errorHandler(BadRequestError("Order is already cancelled")))
                   ELSE IF currentOrder.status \in {"shipped", "delivered"}
                     THEN Respond(r, errorHandler(
                            BadRequestError("Cannot cancel shipped or delivered orders")))
                   ELSE pc' = [pc EXCEPT ![r] = "update"] /\ UNCHANGED resp
  /\ StoreCalled(r)
  /\ UNCHANGED <<orders, orderItems, tx, nextId>>

\* getOrderById answering 403 for an order of another customer
getOrderById_forbidden(r, user, orderId) ==
  /\ Accept(r, [op |-> "getOrderById", user |-> user, orderId |-> orderId])
  /\ \/ \E error \in DbErrors : Respond(r, errorHandler(error))
     \/ LET order == dbGetOrderById(orderId)
        IN IF order.id = 0
             THEN Respond(r, errorHandler(NotFoundError("Order not found")))
           ELSE IF "admin" \notin user.roles /\ order.customerId # user.id
             THEN Respond(r, ErrorResponse(403, "Forbidden", "Access denied", {}))
           ELSE Respond(r, JsonResponse(200, order))
  /\ StoreCalled(r)
  /\ UNCHANGED <<orders, orderItems, tx, nextId, loc>>

\* OrderController.getOrderById: one store read, then the answer
getOrderById(r, user, orderId) ==
  /\ Accept(r, [op |-> "getOrderById", user |-> user, orderId |-> orderId])
  /\ \/ \E error \in DbErrors : Respond(r, errorHandler(error))
     \/ LET order == dbGetOrderById(orderId)
        IN IF order.id = 0
             THEN Respond(r, errorHandler(NotFoundError("Order not found")))
           ELSE IF "admin" \notin user.roles /\ order.customerId # user.id
             THEN Respond(r, errorHandler(NotFoundError("Order not found")))
           ELSE Respond(r, JsonResponse(200, order))
  /\ StoreCalled(r)
  /\ UNCHANGED <<orders, orderItems, tx, nextId, loc>>

\* ---------------------------------------------------------------- listing
MinPage == 1
MinPageSize == 1
MaxPageSize == 100
DefaultPageSize == 10

\* queryParamsSchema.validate(req.query)
queryParamsSchema(page, pageSize) ==
  IF page < MinPage THEN "\"page\" must be greater than or equal to 1"
  ELSE IF pageSize < MinPageSize THEN "\"pageSize\" must be greater than or equal to 1"
  ELSE IF pageSize > MaxPageSize THEN "\"pageSize\" must be less than or equal to 100"
  ELSE ""

RECURSIVE NewestFirst(_)
\* rows ORDER BY createdAt DESC: ids are handed out in insertion order
NewestFirst(rows) ==
  IF rows = {} THEN <<>>
  ELSE LET newest == CHOOSE o \in rows : \A x \in rows : x.id <= o.id
       IN <<newest>> \o NewestFirst(rows \ {newest})

\* the page query without its WHERE customerId = @customerId
dbOrdersPage_anyCustomer(customerId, page, pageSize) ==
  LET all == NewestFirst(orders)
      offset == (page - 1) * pageSize
      last == IF offset + pageSize < Len(all) THEN offset + pageSize ELSE Len(all)
  IN SubSeq(all, offset + 1, last)

\* the page query skipping page * pageSize rows
dbOrdersPage_offsetPage(customerId, page, pageSize) ==
  LET all == NewestFirst({o \in orders : o.customerId = customerId})
      offset == page * pageSize
      last == IF offset + pageSize < Len(all) THEN offset + pageSize ELSE Len(all)
  IN SubSeq(all, offset + 1, last)

\* SELECT * FROM Orders WHERE customerId = @customerId ORDER BY createdAt DESC
\* OFFSET @offset ROWS FETCH NEXT @pageSize ROWS ONLY
dbOrdersPage(customerId, page, pageSize) ==
  LET all == NewestFirst({o \in orders : o.customerId = customerId})
      offset == (page - 1) * pageSize
      last == IF offset + pageSize < Len(all) THEN offset + pageSize ELSE Len(all)
  IN SubSeq(all, offset + 1, last)

\* SELECT COUNT(*) FROM Orders WHERE customerId = @customerId
dbOrdersCount(customerId) == Cardinality({o \in orders : o.customerId = customerId})

\* Math.floor in place of Math.ceil
TotalPages_floor(totalCount, pageSize) == totalCount \div pageSize

\* Math.ceil(totalCount / pageSize)
TotalPages(totalCount, pageSize) == (totalCount + pageSize - 1) \div pageSize

\* getOrders running its page query before it validates the query string
getOrders_queryFirst(r, user, page, pageSize) ==
  /\ Accept(r, [op |-> "getOrders", user |-> user, page |-> page, pageSize |-> pageSize])
  /\ IF queryParamsSchema(page, pageSize) # ""
       THEN /\ Respond(r, errorHandler(ValidationError(queryParamsSchema(page, pageSize))))
            /\ UNCHANGED loc
       ELSE \/ \E error \in DbErrors : Respond(r, errorHandler(error)) /\ UNCHANGED loc
            \/ /\ loc' = [loc EXCEPT ![r] =
                            [orderId |-> 0, rows |-> dbOrdersPage(user.id, page, pageSize)]]
               /\ pc' = [pc EXCEPT ![r] = "count"]
               /\ UNCHANGED resp
  /\ StoreCalled(r)
  /\ UNCHANGED <<orders, orderItems, tx, nextId>>

\* OrderController.getOrders up to the answer of the page query
getOrders(r, user, page, pageSize) ==
  /\ Accept(r, [op |-> "getOrders", user |-> user, page |-> page, pageSize |-> pageSize])
  /\ IF queryParamsSchema(page, pageSize) # ""
       THEN /\ Respond(r, errorHandler(ValidationError(queryParamsSchema(page, pageSize))))
            /\ UNCHANGED loc
       ELSE \/ \E error \in DbErrors : Respond(r, errorHandler(error)) /\ UNCHANGED loc
            \/ /\ loc' = [loc EXCEPT ![r] =
                            [orderId |-> 0, rows |-> dbOrdersPage(user.id, page, pageSize)]]
               /\ pc' = [pc EXCEPT ![r] = "count"]
               /\ UNCHANGED resp
  /\ IF queryParamsSchema(page, pageSize) # "" THEN UNCHANGED storeAccess ELSE StoreCalled(r)
  /\ UNCHANGED <<orders, orderItems, tx, nextId>>

\* DatabaseService.getOrdersByCustomer: the count query and the item queries
\* (the items of a committed order never change, so the item queries read
\* the same rows at whatever later moment they run), then the answer
getOrdersCount(r) ==
  /\ pc[r] = "count"
  /\ \/ \E error \in DbErrors : Respond(r, errorHandler(error))
     \/ LET totalCount == dbOrdersCount(req[r].user.id)
            rows == loc[r].rows
        IN Respond(r, JsonResponse(200,
             [orders |-> [i \in DOMAIN rows |->
                            [id |-> rows[i].id, customerId |-> rows[i].customerId,
                             customerEmail |-> rows[i].customerEmail,
                             orderNumber |-> rows[i].orderNumber, status |-> rows[i].status,
                             totalAmount |-> rows[i].totalAmount,
                             currency |-> rows[i].currency,
                             orderItems |-> {it \in orderItems : it.orderId = rows[i].id}]],
              pagination |-> [page |-> req[r].page, pageSize |-> req[r].pageSize,
                              totalCount |-> totalCount,
                              totalPages |-> TotalPages(totalCount, req[r].pageSize)]]))
  /\ UNCHANGED <<orders, orderItems, tx, nextId, req, loc, served, pool, storeAccess, bus, query>>

\* the client has its response; the slot serves the next request
Ack(r) ==
  /\ pc[r] = "done"
  /\ pc' = [pc EXCEPT ![r] = "idle"]
  /\ req' = [req EXCEPT ![r] = Idle]
  /\ loc' = [loc EXCEPT ![r] = NoLocals]
  /\ resp' = [resp EXCEPT ![r] = NoResponse]
  /\ storeAccess' = [storeAccess EXCEPT ![r] = FALSE]
  /\ UNCHANGED <<orders, orderItems, tx, nextId, served, pool, bus, query>>

\* ---------------------------------------------------------------- inputs
Pages == {0, 1, 2}
PageSizes == {0, 1, 2, MaxPageSize + 1}
OrderIds == 1..(MaxOrders + 1)

\* what `ORD-${Date.now()}-${Math.random()...}` can evaluate to: two requests
\* in the same millisecond can draw the same suffix
OrderNumbers == {"ORD-1700000000000-A1B2C", "ORD-1700000000001-D3E4F"}

Item(productId, productName, quantity, unitPrice) ==
  [productId |-> productId, productName |-> productName, quantity |-> quantity,
   unitPrice |-> unitPrice]

Body(customerId, customerEmail, currency, items, unknownKeys) ==
  [customerId |-> customerId, customerEmail |-> customerEmail,
   shippingAddress |-> "123 Test St", billingAddress |-> "123 Test St",
   currency |-> currency, orderItems |-> items, unknownKeys |-> unknownKeys]

\* 2 x 10.00 and 1 x 5.00
TwoItems == <<Item("p1", "Mug", 2, 10000), Item("p2", "Pen", 1, 5000)>>

\* the body tests/server.test.ts posts, with two items
TestBody == Body("bob", "bob@example.com", Absent, TwoItems, {})
\* the body the storefront's CreateOrderRequest describes
StorefrontBody == Body(Absent, Absent, "EUR", TwoItems, {})

CreateBodies ==
  { TestBody, StorefrontBody,
    Body("bob", "bob@example.com", Absent, <<Item("p1", "Mug", 1, 10000)>>, {"status"}),
    Body("bob", "bob@example.com", Absent, <<Item("p1", "Mug", 3, 5)>>, {}),
    Body("bob", "bob@example.com", Absent, <<>>, {}),
    Body("bob", "bob@example.com", Absent, <<Item("p1", Absent, 1, 10000)>>, {}),
    Body("bob", "bob@example.com", Absent, <<Item("p1", "Mug", 0, 10000)>>, {}) }

StatusBodies == {[status |-> s] : s \in Statuses \cup {"refunded", Absent}}

\* ServiceBusService once a publish has initialized it: the one client created
\* and the topic sender made from it
BusReady ==
  [client |-> 1, topicSender |-> 1, created |-> 1, closed |-> {}, closing |-> FALSE,
   keyVaultClient |-> FALSE]
\* the storefront's query client with no query running
NoFailure == [message |-> "", hasResponse |-> FALSE, status |-> 0]
NoQuery ==
  [key |-> "", status |-> "idle", failureCount |-> 0, answered |-> 0, error |-> NoFailure]

\* ---------------------------------------------------------------- behaviours
\* server.ts listens once initializeApp() has resolved, and with it
\* dbService.initialize(): the requests of a client meet a connected pool
Init ==
  /\ orders = {}
  /\ orderItems = {}
  /\ tx = [r \in Reqs |-> NoTx]
  /\ nextId = 1
  /\ served = 0
  /\ pool = "connected"
  /\ storeAccess = [r \in Reqs |-> FALSE]
  /\ bus = BusReady
  /\ query = NoQuery
  /\ pc = [r \in Reqs |-> "idle"]
  /\ req = [r \in Reqs |-> Idle]
  /\ loc = [r \in Reqs |-> NoLocals]
  /\ resp = [r \in Reqs |-> NoResponse]

\* the order lifecycle: create, set status, cancel
Next ==
  \E r \in Reqs :
    \/ \E orderNumber \in OrderNumbers : createOrder(r, Alice, TestBody, orderNumber)
    \/ createOrderInsertOrder(r)
    \/ createOrderInsertItem(r)
    \/ createOrderCommit(r)
    \/ Refetch(r)
    \/ publishOrderEvent(r)
    \/ \E user \in {Bob, Root}, orderId \in OrderIds, body \in StatusBodies :
         updateOrderStatus(r, user, orderId, body)
    \/ dbUpdateOrderStatus(r)
    \/ \E user \in Users, orderId \in OrderIds : cancelOrder(r, user, orderId)
    \/ Ack(r)

Spec == Init /\ [][Next]_vars

\* order creation with every kind of body, read back by id
NextCreate ==
  \E r \in Reqs :
    \/ \E user \in {Alice, Bob}, body \in CreateBodies, orderNumber \in OrderNumbers :
         createOrder(r, user, body, orderNumber)
    \/ createOrderInsertOrder(r)
    \/ createOrderInsertItem(r)
    \/ createOrderCommit(r)
    \/ Refetch(r)
    \/ publishOrderEvent(r)
    \/ \E orderId \in OrderIds : getOrderById(r, Root, orderId)
    \/ Ack(r)

SpecCreate == Init /\ [][NextCreate]_vars

\* reading: list and get-by-id over orders that are created and change status
NextRead ==
  \E r \in Reqs :
    \/ \E user \in {Alice, Bob}, orderNumber \in OrderNumbers :
         createOrder(r, user, TestBody, orderNumber)
    \/ createOrderInsertOrder(r)
    \/ createOrderInsertItem(r)
    \/ createOrderCommit(r)
    \/ Refetch(r)
    \/ publishOrderEvent(r)
    \/ \E user \in Users, orderId \in OrderIds : getOrderById(r, user, orderId)
    \/ \E user \in Users, page \in Pages, pageSize \in PageSizes :
         getOrders(r, user, page, pageSize)
    \/ getOrdersCount(r)
    \/ \E orderId \in OrderIds : cancelOrder(r, Root, orderId)
    \/ dbUpdateOrderStatus(r)
    \/ Ack(r)

SpecRead == Init /\ [][NextRead]_vars

\* ---------------------------------------------------------------- server
\* what reaches a handler as req.user when no token was verified
NoUser == [id |-> Absent, email |-> Absent, roles |-> {}]

\* the Authorization header: its scheme and what follows "Bearer "
Header(scheme, token) == [scheme |-> scheme, token |-> token]
NoHeader == Header(Absent, "")

\* AuthService.verifyToken: jwt.verify against the secret, audience and issuer;
\* the tokens that verify are the ones issued to the users
verifyToken(token) ==
  IF \E u \in Users : u.id = token THEN CHOOSE u \in Users : u.id = token ELSE NoUser

\* the 401 answers of authMiddleware: error and message only
Unauthorized(message) ==
  [status |-> 401, error |-> "Unauthorized", message |-> message, body |-> NoOrder,
   fields |-> {"error", "message"}]

\* authMiddleware letting a request without Authorization header through
authMiddleware_optional(authorization) ==
  IF authorization.scheme # "Bearer"
    THEN [next |-> TRUE, user |-> NoUser, response |-> NoResponse]
  ELSE IF authorization.token = ""
    THEN [next |-> FALSE, user |-> NoUser, response |-> Unauthorized("Token not provided")]
  ELSE IF verifyToken(authorization.token) = NoUser
    THEN [next |-> FALSE, user |-> NoUser,
          response |-> Unauthorized("Invalid or expired token")]
  ELSE [next |-> TRUE, user |-> verifyToken(authorization.token), response |-> NoResponse]

\* middleware/auth.ts authMiddleware: next() with req.user set, or a 401
authMiddleware(authorization) ==
  IF authorization.scheme # "Bearer"
    THEN [next |-> FALSE, user |-> NoUser, response |-> Unauthorized("Bearer token required")]
  ELSE IF authorization.token = ""
    THEN [next |-> FALSE, user |-> NoUser, response |-> Unauthorized("Token not provided")]
  ELSE IF verifyToken(authorization.token) = NoUser
    THEN [next |-> FALSE, user |-> NoUser,
          response |-> Unauthorized("Invalid or expired token")]
  ELSE [next |-> TRUE, user |-> verifyToken(authorization.token), response |-> NoResponse]

\* cors() ends an OPTIONS request itself
Preflight ==
  [status |-> 204, error |-> "", message |-> "", body |-> NoOrder, fields |-> {}]

\* the rate limiter's answer once the caller's address is over its limit
TooManyRequests ==
  [status |-> 429, error |-> "",
   message |-> "Too many requests from this IP, please try again later.",
   body |-> NoOrder, fields |-> {}]

\* what express.json() passes to next() for a body that does not parse
BodyParseError ==
  [cls |-> "Error", name |-> "SyntaxError", message |-> "Unexpected token in JSON",
   statusCode |-> 400]

\* errorHandler.ts notFoundHandler (exported, mounted nowhere)
notFoundHandler(method, url) ==
  [status |-> 404, error |-> "Not Found",
   message |-> "Route " \o method \o " " \o url \o " not found", body |-> NoOrder,
   fields |-> EnvelopeFields]

\* server.ts: app.use('*', ...) after the routes and the error handler
routeNotFound(method, url) ==
  [status |-> 404, error |-> "Not Found", message |-> "Route " \o url \o " not found",
   body |-> NoOrder, fields |-> {"error", "message", "timestamp"}]

\* the paths under the mount app.use('/api/orders', authMiddleware, router)
OrderUrls == {"/api/orders", "/api/orders/1", "/api/orders/1/items"}
\* the paths under app.use('/api/', limiter)
ApiUrls == OrderUrls \cup {"/api/products"}

\* OrderController.initializeRoutes: the handler of a method and path, "" when
\* the router has none
RouteOf(method, url) ==
  IF method = "GET" /\ url = "/api/orders" THEN "getOrders"
  ELSE IF method = "GET" /\ url = "/api/orders/1" THEN "getOrderById"
  ELSE IF method = "POST" /\ url = "/api/orders" THEN "createOrder"
  ELSE ""

\* a request through server.ts's middleware that ends before any handler:
\* cors, the rate limiter under /api/, the body parser, authMiddleware under
\* /api/orders, and the 404 handler for what no route takes
Answered(r, request, response) ==
  /\ Accept(r, request)
  /\ Respond(r, response)
  /\ UNCHANGED <<orders, orderItems, tx, nextId, loc, storeAccess>>

\* the BadRequestError a handler throws when req.user holds no id (getOrders,
\* getOrderById, cancelOrder) or no id or email (createOrder)
IdentityError(route) ==
  IF route = "createOrder"
    THEN BadRequestError("Customer information not found in token")
    ELSE BadRequestError("Customer ID not found in token")

Http(method, url, authorization, overLimit, malformed) ==
  [op |-> "http", method |-> method, url |-> url, authorization |-> authorization,
   overLimit |-> overLimit, malformed |-> malformed]

\* server.ts from app.use(cors(...)) to the 404 handler: the request is
\* answered by the first middleware that ends it, or handed to its handler
serve(r, request) ==
  LET auth == authMiddleware(request.authorization)
      route == RouteOf(request.method, request.url)
  IN IF request.method = "OPTIONS"
       THEN Answered(r, request, Preflight)
     ELSE IF request.overLimit /\ request.url \in ApiUrls
       THEN Answered(r, request, TooManyRequests)
     ELSE IF request.malformed
       THEN Answered(r, request, errorHandler(BodyParseError))
     ELSE IF request.url \notin OrderUrls
       THEN Answered(r, request, routeNotFound(request.method, request.url))
     ELSE IF ~auth.next
       THEN Answered(r, request, auth.response)
     ELSE IF route = ""
       THEN Answered(r, request, routeNotFound(request.method, request.url))
     ELSE IF auth.user = NoUser
       THEN Answered(r, request, errorHandler(IdentityError(route)))
     ELSE IF route = "getOrders"
       THEN getOrders(r, auth.user, MinPage, DefaultPageSize)
     ELSE IF route = "getOrderById"
       THEN getOrderById(r, auth.user, 1)
     ELSE \E orderNumber \in OrderNumbers : createOrder(r, auth.user, TestBody, orderNumber)

\* requests of every kind the middleware tells apart
Headers ==
  {NoHeader, Header("Basic", "alice"), Header("Bearer", ""), Header("Bearer", "forged"),
   Header("Bearer", "alice"), Header("Bearer", "root")}

HttpRequests ==
  {Http("GET", "/api/orders/1", h, FALSE, FALSE) : h \in Headers}
    \cup {Http("POST", "/api/orders", h, FALSE, FALSE) :
            h \in {NoHeader, Header("Bearer", "alice")}}
    \cup {Http("GET", "/api/orders", h, FALSE, FALSE) :
            h \in {Header("Bearer", "forged"), Header("Bearer", "alice")}}
    \cup {Http("POST", "/api/orders", NoHeader, TRUE, FALSE),
          Http("POST", "/api/orders", NoHeader, FALSE, TRUE),
          Http("OPTIONS", "/api/orders", NoHeader, FALSE, FALSE),
          Http("DELETE", "/api/orders/1", Header("Bearer", "alice"), FALSE, FALSE),
          Http("GET", "/api/orders/1/items", NoHeader, FALSE, FALSE),
          Http("GET", "/non-existent-route", NoHeader, FALSE, FALSE)}

\* the server as a whole: every request goes through the middleware
NextServer ==
  \E r \in Reqs :
    \/ \E request \in HttpRequests : serve(r, request)
    \/ createOrderInsertOrder(r)
    \/ createOrderInsertItem(r)
    \/ createOrderCommit(r)
    \/ Refetch(r)
    \/ publishOrderEvent(r)
    \/ getOrdersCount(r)
    \/ Ack(r)

SpecServer == Init /\ [][NextServer]_vars

\* ---- listing a store that already holds orders
MaxTotalCount == 25

\* the rows of n orders Alice placed earlier, each with one item
StoredOrders(n) ==
  {[id |-> i, customerId |-> Alice.id, customerEmail |-> Alice.email,
    orderNumber |-> "ORD-" \o ToString(i), status |-> "pending", totalAmount |-> 2500,
    currency |-> "USD"] : i \in 1..n}
StoredItems(n) ==
  {[orderId |-> i, n |-> 1, productId |-> "p1", productName |-> "Mug", quantity |-> 1,
    unitPrice |-> 2500, totalPrice |-> 2500] : i \in 1..n}

InitPages ==
  \E n \in 0..MaxTotalCount :
    /\ orders = StoredOrders(n)
    /\ orderItems = StoredItems(n)
    /\ tx = [r \in Reqs |-> NoTx]
    /\ nextId = n + 1
    /\ served = 0
    /\ pool = "connected"
    /\ storeAccess = [r \in Reqs |-> FALSE]
    /\ bus = BusReady
    /\ query = NoQuery
    /\ pc = [r \in Reqs |-> "idle"]
    /\ req = [r \in Reqs |-> Idle]
    /\ loc = [r \in Reqs |-> NoLocals]
    /\ resp = [r \in Reqs |-> NoResponse]

\* one client paging through its orders, a request at a time, with every
\* page size the query schema admits
NextPages ==
  \E r \in Reqs :
    \/ /\ \A q \in Reqs : pc[q] = "idle"
       /\ \E page \in {MinPage, MinPage + 1}, pageSize \in MinPageSize..MaxPageSize :
            getOrders(r, Alice, page, pageSize)
    \/ getOrdersCount(r)
    \/ Ack(r)

SpecPages == InitPages /\ [][NextPages]_vars

\* ---- the store on its own: DatabaseService called by whoever holds the instance
PoolNotInitialized ==
  [cls |-> "Error", name |-> "Error", message |-> "Database pool not initialized",
   statusCode |-> 0]
NoError == [cls |-> "", name |-> "", message |-> "", statusCode |-> 0]

StoreOps == {"createOrder", "getOrderById", "getOrdersByCustomer", "updateOrderStatus"}

\* DatabaseService.initialize up to its `await this.pool.connect()`: the pool
\* object is assigned before the connection exists
initialize ==
  /\ pool \in {"null", "failed", "closed"}
  /\ pool' = "connecting"
  /\ UNCHANGED <<orders, orderItems, tx, nextId, pc, req, loc, resp, served, storeAccess, bus, query>>

\* pool.connect() settles: resolved, or rejected with this.pool still assigned
connectSettles ==
  /\ pool = "connecting"
  /\ pool' \in {"connected", "failed"}
  /\ UNCHANGED <<orders, orderItems, tx, nextId, pc, req, loc, resp, served, storeAccess, bus, query>>

\* DatabaseService.close: the pool is closed, this.pool stays assigned
close ==
  /\ pool \in {"connected", "failed"}
  /\ pool' = "closed"
  /\ UNCHANGED <<orders, orderItems, tx, nextId, pc, req, loc, resp, served, storeAccess, bus, query>>

\* a store operation from its entry to the settling of its first call on the
\* driver (pool.request().query(...) or new Transaction(pool).begin()): the
\* guard passes for any assigned pool; on a connected pool the statement
\* runs, on any other the driver rejects with its ConnectionError
storeCall(r, op) ==
  /\ Accept(r, [op |-> "store", call |-> op])
  /\ \E thrown \in IF pool = "null" THEN {PoolNotInitialized}
                   ELSE IF pool = "connected" THEN {NoError} \cup DbErrors
                   ELSE {ConnectionError} :
       loc' = [loc EXCEPT ![r] = [orderId |-> 0, pool |-> pool, thrown |-> thrown,
                                  driverCalled |-> pool # "null"]]
  /\ Respond(r, NoResponse)
  /\ IF pool = "null" THEN UNCHANGED storeAccess ELSE StoreCalled(r)
  /\ UNCHANGED <<orders, orderItems, tx, nextId>>

InitStore ==
  /\ orders = {}
  /\ orderItems = {}
  /\ tx = [r \in Reqs |-> NoTx]
  /\ nextId = 1
  /\ served = 0
  /\ pool = "null"
  /\ storeAccess = [r \in Reqs |-> FALSE]
  /\ bus = BusReady
  /\ query = NoQuery
  /\ pc = [r \in Reqs |-> "idle"]
  /\ req = [r \in Reqs |-> Idle]
  /\ loc = [r \in Reqs |-> NoLocals]
  /\ resp = [r \in Reqs |-> NoResponse]

NextStore ==
  \/ initialize
  \/ connectSettles
  \/ close
  \/ \E r \in Reqs :
       \/ \E op \in StoreOps : storeCall(r, op)
       \/ Ack(r)

SpecStore == InitStore /\ [][NextStore]_vars

\* all five operations of the router on the orders of one customer
NextAll ==
  \E r \in Reqs :
    \/ \E orderNumber \in OrderNumbers : createOrder(r, Alice, TestBody, orderNumber)
    \/ createOrderInsertOrder(r)
    \/ createOrderInsertItem(r)
    \/ createOrderCommit(r)
    \/ Refetch(r)
    \/ publishOrderEvent(r)
    \/ \E orderId \in OrderIds, status \in {"shipped", "pending"} :
         updateOrderStatus(r, Root, orderId, [status |-> status])
    \/ dbUpdateOrderStatus(r)
    \/ \E orderId \in OrderIds : cancelOrder(r, Alice, orderId)
    \/ getOrderById(r, Alice, 1)
    \/ getOrders(r, Alice, MinPage, DefaultPageSize)
    \/ getOrdersCount(r)
    \/ Ack(r)

SpecAll == Init /\ [][NextAll]_vars

\* requests that pass and requests that fail each handler's checks
NextChecks ==
  \E r \in Reqs :
    \/ \E body \in {TestBody, Body("bob", "bob@example.com", Absent, <<>>, {})},
          orderNumber \in OrderNumbers : createOrder(r, Alice, body, orderNumber)
    \/ createOrderInsertOrder(r)
    \/ createOrderInsertItem(r)
    \/ createOrderCommit(r)
    \/ Refetch(r)
    \/ publishOrderEvent(r)
    \/ \E user \in {Bob, Root}, status \in {"shipped", "refunded"} :
         updateOrderStatus(r, user, 1, [status |-> status])
    \/ dbUpdateOrderStatus(r)
    \/ \E user \in {Alice, Bob} : cancelOrder(r, user, 1)
    \/ \E user \in {Alice, Bob} : getOrderById(r, user, 1)
    \/ \E page \in {MinPage - 1, MinPage} : getOrders(r, Alice, page, DefaultPageSize)
    \/ getOrdersCount(r)
    \/ Ack(r)

SpecChecks == Init /\ [][NextChecks]_vars

\* the writing operations with what the runtime guarantees: a store call the
\* handler awaits settles (the driver resolves or rejects it); nothing in the
\* handler or in ServiceBusService bounds the wait for sendMessages
NextLive ==
  \E r \in Reqs :
    \/ \E orderNumber \in OrderNumbers : createOrder(r, Alice, TestBody, orderNumber)
    \/ createOrderInsertOrder(r)
    \/ createOrderInsertItem(r)
    \/ createOrderCommit(r)
    \/ Refetch(r)
    \/ publishOrderEvent(r)
    \/ updateOrderStatus(r, Root, 1, [status |-> "shipped"])
    \/ dbUpdateOrderStatus(r)
    \/ cancelOrder(r, Alice, 1)
    \/ Ack(r)

SpecLive ==
  /\ Init
  /\ [][NextLive]_vars
  /\ \A r \in Reqs :
       /\ WF_vars(createOrderInsertOrder(r))
       /\ WF_vars(createOrderInsertItem(r))
       /\ WF_vars(createOrderCommit(r))
       /\ WF_vars(Refetch(r))
       /\ WF_vars(dbUpdateOrderStatus(r))

\* ---- the storefront: react-query's client over ApiService
MaxRetries == 3

\* what the API service answers a request with; 0: no response arrives
HttpStatuses == {0, 200, 400, 401, 403, 404, 409, 429, 500, 502, 503}
QueryKeys == {"featured-products", "products"}

\* the error axios rejects a request with: it carries the response, if any
AxiosError(httpStatus) ==
  [message |-> "Request failed", hasResponse |-> httpStatus # 0, status |-> httpStatus]

\* ApiService's response interceptor, on a rejection: it throws a new Error
\* made of the status and the message; the new Error has no `response`
responseInterceptor(error) ==
  IF error.hasResponse
    THEN [message |-> ToString(error.status) \o ": An error occurred",
          hasResponse |-> FALSE, status |-> 0]
    ELSE [message |-> "Network error - please check your connection",
          hasResponse |-> FALSE, status |-> 0]

\* queryClient's defaultOptions.queries.retry
retry(failureCount, error) ==
  IF error.hasResponse /\ error.status >= 400 /\ error.status < 500
    THEN FALSE
    ELSE failureCount < MaxRetries

\* a component mounts useQuery(key, () => apiService.get...)
useQuery(key) ==
  /\ query.status # "fetching"
  /\ query' = [NoQuery EXCEPT !.key = key, !.status = "fetching"]
  /\ UNCHANGED <<orders, orderItems, tx, nextId, pc, req, loc, resp, served, pool,
                 storeAccess, bus>>

\* the request of the running query settles with httpStatus: a 2xx resolves
\* the query; otherwise the interceptor's Error reaches the retryer, which
\* asks retry(failureCount, error) and fetches again or ends the query.  On a
\* 401 handleAuthError has sent the browser to /login first, which unloads the
\* page and its query unless the page is /login already.
querySettles(httpStatus) ==
  /\ query.status = "fetching"
  /\ \/ /\ httpStatus = 401
        /\ query' = NoQuery
     \/ IF httpStatus >= 200 /\ httpStatus < 300
          THEN query' = [query EXCEPT !.status = "success"]
          ELSE LET error == responseInterceptor(AxiosError(httpStatus))
               IN IF retry(query.failureCount, error)
                    THEN query' = [query EXCEPT !.failureCount = @ + 1,
                                                !.answered = httpStatus, !.error = error]
                    ELSE query' = [query EXCEPT !.status = "error",
                                                !.answered = httpStatus, !.error = error]
  /\ UNCHANGED <<orders, orderItems, tx, nextId, pc, req, loc, resp, served, pool,
                 storeAccess, bus>>

NextQuery ==
  \/ \E key \in QueryKeys : useQuery(key)
  \/ \E httpStatus \in HttpStatuses : querySettles(httpStatus)

SpecQuery == Init /\ [][NextQuery]_vars

\* status changes racing on one order the store already holds: Alice's
\* order 1, pending
InitRace ==
  /\ orders = StoredOrders(1)
  /\ orderItems = StoredItems(1)
  /\ tx = [r \in Reqs |-> NoTx]
  /\ nextId = 2
  /\ served = 0
  /\ pool = "connected"
  /\ storeAccess = [r \in Reqs |-> FALSE]
  /\ bus = BusReady
  /\ query = NoQuery
  /\ pc = [r \in Reqs |-> "idle"]
  /\ req = [r \in Reqs |-> Idle]
  /\ loc = [r \in Reqs |-> NoLocals]
  /\ resp = [r \in Reqs |-> NoResponse]

NextRace ==
  \E r \in Reqs :
    \/ \E status \in Statuses : updateOrderStatus(r, Root, 1, [status |-> status])
    \/ dbUpdateOrderStatus(r)
    \/ \E user \in {Alice, Root} : cancelOrder(r, user, 1)
    \/ Refetch(r)
    \/ publishOrderEvent(r)
    \/ Ack(r)

SpecRace == InitRace /\ [][NextRace]_vars

\* ---------------------------------------------------------------- properties
IsAdmin(user) == "admin" \in user.roles

\* C1: list-orders hands a caller only orders whose customerId is the
\* caller's id: the rows its page query read and the orders of its 200
\* answer, for every page and pageSize and whatever creates, status updates
\* and cancels came before
C1_ListOnlyOwnOrders ==
  \A r \in Reqs :
    req[r].op = "getOrders" =>
      /\ pc[r] = "count" =>
           \A i \in DOMAIN loc[r].rows : loc[r].rows[i].customerId = req[r].user.id
      /\ (pc[r] = "done" /\ resp[r].status = 200) =>
           \A i \in DOMAIN resp[r].body.orders :
             resp[r].body.orders[i].customerId = req[r].user.id

\* a list answered with an order while the store also holds another customer's order
C1_Witness ==
  \E r \in Reqs :
    /\ req[r].op = "getOrders" /\ pc[r] = "done" /\ resp[r].status = 200
    /\ Len(resp[r].body.orders) >= 1
    /\ \E o \in orders : o.customerId # req[r].user.id

\* what get-by-id answers for an id the store has no order for
MissingOrderResponses ==
  {errorHandler(NotFoundError("Order not found"))} \cup {errorHandler(e) : e \in DbErrors}

\* C2: get-by-id answers 200 with the order only to the order's customer or
\* to an admin; a non-admin asking for another customer's order gets an
\* answer that an id without order gets too (the same 404 body)
C2_GetByIdOwnerOrAdmin ==
  \A r \in Reqs :
    (req[r].op = "getOrderById" /\ pc[r] = "done") =>
      /\ resp[r].status = 200 =>
           /\ resp[r].body.id = req[r].orderId
           /\ resp[r].body.customerId = req[r].user.id \/ IsAdmin(req[r].user)
      /\ (/\ ~IsAdmin(req[r].user)
          /\ \E o \in orders : o.id = req[r].orderId /\ o.customerId # req[r].user.id)
           => resp[r] \in MissingOrderResponses
      /\ resp[r].status = 404 =>
           resp[r] = errorHandler(NotFoundError("Order not found"))

\* a non-admin asked for another customer's order and got the 404
C2_Witness ==
  \E r \in Reqs :
    /\ req[r].op = "getOrderById" /\ pc[r] = "done" /\ resp[r].status = 404
    /\ ~IsAdmin(req[r].user)
    /\ \E o \in orders : o.id = req[r].orderId /\ o.customerId # req[r].user.id

\* the committed item rows of an order
ItemsOf(orderId) == {it \in orderItems : it.orderId = orderId}

RECURSIVE SumLines(_)
\* the sum over item rows of quantity x unitPrice
SumLines(rows) ==
  IF rows = {} THEN 0
  ELSE LET it == CHOOSE x \in rows : TRUE
       IN it.quantity * it.unitPrice + SumLines(rows \ {it})

\* C3: every stored order's totalAmount is the sum over its items of
\* quantity x unitPrice, and every stored item's totalPrice is its
\* quantity x unitPrice
C3_TotalIsSumOfLines ==
  /\ \A it \in orderItems : it.totalPrice = it.quantity * it.unitPrice
  /\ \A o \in orders : o.totalAmount = SumLines(ItemsOf(o.id))

\* the order of 2 x 10.00 and 1 x 5.00 is stored with totalAmount 25.00
C3_Witness ==
  \E o \in orders :
    /\ o.totalAmount = 2500
    /\ {<<it.quantity, it.unitPrice, it.totalPrice>> : it \in ItemsOf(o.id)}
         = {<<2, 1000, 2000>>, <<1, 500, 500>>}

\* the requests whose create has reached the store with an id for its order
Creating == {r \in Reqs : req[r].op = "createOrder" /\ loc[r].orderId # 0}

\* the order row of request r as its own transaction or anybody sees it
RowsOf(r) == {o \in orders \cup {tx[r].order} : o.id = loc[r].orderId}

\* C4: the order row a create request writes has status pending and the
\* customerId and customerEmail of the caller's identity, whatever the body
\* carries in customerId and customerEmail
C4_IdentityFromCaller ==
  \A r \in Creating :
    \A o \in RowsOf(r) :
      /\ o.status = "pending"
      /\ o.customerId = req[r].user.id
      /\ o.customerEmail = req[r].user.email

\* an order committed for a caller whose body named another customer
C4_Witness ==
  \E r \in Creating :
    /\ req[r].body.customerId # req[r].user.id
    /\ req[r].body.customerEmail # req[r].user.email
    /\ \E o \in orders : o.id = loc[r].orderId

\* the create body as the service's contract words it: shippingAddress,
\* billingAddress, optional 3-letter currency, a non-empty list of valid
\* items, and neither customerId nor customerEmail
ContractBody(body) ==
  /\ body.customerId = Absent /\ body.customerEmail = Absent
  /\ body.shippingAddress # Absent /\ body.billingAddress # Absent
  /\ body.currency \in {Absent, "USD", "EUR"}
  /\ body.orderItems # <<>>
  /\ \A i \in DOMAIN body.orderItems : ItemError(body.orderItems[i]) = ""
  /\ body.unknownKeys = {}

\* C5: a create request whose body is exactly shippingAddress,
\* billingAddress, optional currency and a non-empty orderItems, without
\* customerId and customerEmail, is not answered 400
C5_ContractBodyAccepted ==
  \A r \in Reqs :
    (req[r].op = "createOrder" /\ pc[r] = "done" /\ ContractBody(req[r].body))
      => resp[r].status # 400

\* C6: the orderNumbers of the stored orders are pairwise distinct
C6_OrderNumbersDistinct ==
  \A o1, o2 \in orders : o1.id # o2.id => o1.orderNumber # o2.orderNumber

\* two creates that overlapped drew the same orderNumber: one is stored,
\* the other answered 409
C6_Witness ==
  \E r, q \in Reqs :
    /\ r # q
    /\ req[r].op = "createOrder" /\ req[q].op = "createOrder"
    /\ pc[q] = "done" /\ resp[q].status = 409
    /\ loc[r].orderId # 0
    /\ loc[r].order.orderNumber = loc[q].order.orderNumber
    /\ \E o \in orders : o.id = loc[r].orderId

\* C7: a create is atomic to every reader: no item row is visible without
\* its order row, the order row of a create is visible only together with
\* all of its item rows, and after a failure of an insert or of the commit
\* neither is visible
C7_CreateAtomic ==
  /\ \A it \in orderItems : \E o \in orders : o.id = it.orderId
  /\ \A r \in Creating :
       LET visible == \E o \in orders : o.id = loc[r].orderId
           items == ItemsOf(loc[r].orderId)
       IN /\ \/ ~visible /\ items = {}
             \/ visible /\ Cardinality(items) = Len(loc[r].order.orderItems)
          /\ loc[r].failed \in {"insertOrder", "insertItem", "commit"}
               => ~visible /\ items = {}

\* a create failed after it had inserted its order row and an item row,
\* while a read of that id found nothing
C7_Witness ==
  \E r \in Creating, q \in Reqs :
    /\ loc[r].failed \in {"insertItem", "commit"} /\ loc[r].n >= 1
    /\ req[q].op = "getOrderById" /\ req[q].orderId = loc[r].orderId
    /\ pc[q] = "done" /\ resp[q].status = 404

\* the step in which the publish of request r settles and its handler answers
PublishSettles(r) == pc[r] = "publish" /\ pc'[r] = "done"

\* C8: whether the publish succeeds or fails, the handler answers 201 (create)
\* or 200 (update-status, cancel) with the order it read back, and the store
\* keeps what was written
C8_PublishFailureInvisible ==
  [][\A r \in Reqs :
       PublishSettles(r) =>
         /\ resp'[r] = JsonResponse(SuccessStatus(req[r].op), loc[r].fetched)
         /\ orders' = orders /\ orderItems' = orderItems]_vars

\* a create answered 201 and a cancel answered 200, the publish of both failed
C8_Witness ==
  \E r, q \in Reqs :
    /\ req[r].op = "createOrder" /\ pc[r] = "done" /\ loc[r].published = "failed"
    /\ resp[r].status = 201 /\ resp[r].body.id = loc[r].orderId
    /\ req[q].op = "cancelOrder" /\ pc[q] = "done" /\ resp[q].status = 200
    /\ loc[q].published = "failed"
    /\ \E o \in orders : o.id = loc[q].orderId /\ o.status = "cancelled"

\* request r is an update-status request of a caller without the admin role
NonAdminUpdate(r) == req[r].op = "updateOrderStatus" /\ ~IsAdmin(req[r].user)

\* C9: an update-status request of a non-admin is answered 403 in the step
\* that accepts it, for every id and every body, never reaches the store's
\* UPDATE, and that step leaves the store as it is
C9_NonAdminUpdateForbidden ==
  /\ [](\A r \in Reqs :
          NonAdminUpdate(r) =>
            pc[r] = "done" /\ resp[r].status = 403 /\ loc[r] = NoLocals)
  /\ [][\A r \in Reqs :
          (pc[r] = "idle" /\ pc'[r] # "idle" /\ req'[r].op = "updateOrderStatus"
             /\ ~IsAdmin(req'[r].user))
            => orders' = orders /\ orderItems' = orderItems /\ tx' = tx]_vars

\* a non-admin's update with a status outside the schema, for an id without
\* order, answered 403, and one for an existing order, which stays pending
C9_Witness ==
  \E r, q \in Reqs :
    /\ NonAdminUpdate(r) /\ resp[r].status = 403
    /\ req[r].body.status = "refunded" /\ req[r].orderId = MaxOrders + 1
    /\ NonAdminUpdate(q) /\ resp[q].status = 403
    /\ req[q].body.status = "shipped"
    /\ \E o \in orders : o.id = req[q].orderId /\ o.status = "pending"

\* the cancel requests that read their order and may cancel it (owner or admin)
Cancelling == {r \in Reqs : req[r].op = "cancelOrder" /\ loc[r].orderId # 0}

DbErrorResponses == {errorHandler(e) : e \in DbErrors}

\* C10: a cancel by the owner or an admin that read status pending or
\* processing goes on to the UPDATE, which sets cancelled, and is answered
\* 200 unless a store call fails; one that read cancelled, shipped or
\* delivered is answered 400 in the same step, which leaves the store as it is
C10_CancelByStatus ==
  /\ [](\A r \in Cancelling :
          LET status == loc[r].currentOrder.status
          IN /\ IsAdmin(req[r].user) \/ loc[r].currentOrder.customerId = req[r].user.id
             /\ status = "cancelled" =>
                  /\ pc[r] = "done"
                  /\ resp[r] = errorHandler(BadRequestError("Order is already cancelled"))
             /\ status \in {"shipped", "delivered"} =>
                  /\ pc[r] = "done"
                  /\ resp[r] = errorHandler(
                       BadRequestError("Cannot cancel shipped or delivered orders"))
             /\ status \in {"pending", "processing"} =>
                  /\ pc[r] \in {"update", "refetch", "publish", "done"}
                  /\ pc[r] = "done" =>
                       \/ resp[r].status = 200 /\ resp[r].body.id = req[r].orderId
                       \/ resp[r] \in DbErrorResponses)
  /\ [][\A r \in Reqs :
          /\ (req[r].op = "cancelOrder" /\ pc[r] = "update" /\ pc'[r] = "refetch")
               => \E o \in orders' : o.id = loc[r].orderId /\ o.status = "cancelled"
          /\ (pc[r] = "idle" /\ pc'[r] = "done" /\ req'[r].op = "cancelOrder")
               => orders' = orders /\ orderItems' = orderItems]_vars

\* the owner's cancel of a shipped order answered 400, the order still shipped
C10_Witness ==
  \E r \in Cancelling :
    /\ ~IsAdmin(req[r].user)
    /\ loc[r].currentOrder.status = "shipped"
    /\ pc[r] = "done" /\ resp[r].status = 400
    /\ \E o \in orders : o.id = req[r].orderId /\ o.status = "shipped"

\* request r is a cancel of a caller who is not an admin, for an order of
\* another customer
ForeignCancel(r) ==
  /\ req[r].op = "cancelOrder" /\ ~IsAdmin(req[r].user)
  /\ \E o \in orders : o.id = req[r].orderId /\ o.customerId # req[r].user.id

\* C11: a cancel by a caller who is neither the order's customer nor an
\* admin is answered in the step that accepts it with an answer a cancel of
\* an id without order gets too (the 404 "Order not found"), whatever the
\* order's status; it never reaches the UPDATE nor the publish
C11_ForeignCancelNotFound ==
  \A r \in Reqs :
    /\ ForeignCancel(r) =>
         /\ pc[r] = "done" /\ loc[r] = NoLocals
         /\ resp[r] \in MissingOrderResponses
    /\ (req[r].op = "cancelOrder" /\ pc[r] = "done"
          /\ ~\E o \in orders : o.id = req[r].orderId)
         => loc[r] = NoLocals /\ resp[r] \in MissingOrderResponses

\* Bob's cancel of Alice's shipped order answered 404, the order still shipped
C11_Witness ==
  \E r \in Reqs :
    /\ ForeignCancel(r) /\ resp[r].status = 404
    /\ \E o \in orders : o.id = req[r].orderId /\ o.status = "shipped"

\* request r is an update-status request of an admin with a body the schema accepts
AdminUpdate(r) ==
  /\ req[r].op = "updateOrderStatus" /\ IsAdmin(req[r].user)
  /\ updateOrderStatusSchema(req[r].body) = ""

\* C12: an admin's update-status for an id the store has no order for never
\* reaches the publish and is answered 404 "Order not found" unless a store
\* call fails; the UPDATE for such an id leaves the table as it is
C12_UpdateMissingNotFound ==
  /\ \A r \in Reqs :
       (AdminUpdate(r) /\ ~\E o \in orders : o.id = req[r].orderId) =>
         /\ pc[r] \in {"update", "refetch", "done"}
         /\ loc[r].published = ""
         /\ pc[r] = "done" => resp[r] \in MissingOrderResponses
  /\ \A orderId \in OrderIds, status \in Statuses :
       (~\E o \in orders : o.id = orderId) => dbSetStatus(orderId, status) = orders

\* an admin's update for an id without order answered 404 while the store
\* holds another order, still pending
C12_Witness ==
  \E r \in Reqs :
    /\ AdminUpdate(r) /\ pc[r] = "done" /\ resp[r].status = 404
    /\ req[r].body.status = "shipped"
    /\ ~\E o \in orders : o.id = req[r].orderId
    /\ \E o \in orders : o.status = "pending"

\* C14: every error answer (status 400 and above) carries the fields error,
\* message, timestamp and path
C14_UniformEnvelope ==
  \A r \in Reqs :
    (pc[r] = "done" /\ resp[r].status >= 400) => EnvelopeFields \subseteq resp[r].fields

\* ---- C13
ValidCredential(authorization) ==
  authorization.scheme = "Bearer" /\ verifyToken(authorization.token) # NoUser

Unverified(r) ==
  /\ req[r].op = "http"
  /\ req[r].url \in OrderUrls
  /\ ~ValidCredential(req[r].authorization)

HandlerOps == {"getOrders", "getOrderById", "createOrder", "updateOrderStatus", "cancelOrder"}

UnverifiedEnds(r) ==
  /\ pc[r] = "done"
  /\ loc[r] = NoLocals
  /\ IF req[r].method = "OPTIONS" THEN resp[r] = Preflight
     ELSE IF req[r].overLimit THEN resp[r] = TooManyRequests
     ELSE IF req[r].malformed THEN resp[r] = errorHandler(BodyParseError)
     ELSE resp[r].status = 401 /\ resp[r].error = "Unauthorized"

\* C13 (as the server behaves): a request to an order endpoint without a
\* valid bearer credential never reaches an order handler or the store; it
\* is answered 401 'Unauthorized' unless an earlier middleware ended it
\* first: cors answers an OPTIONS request 204, the rate limiter answers a
\* caller over its limit 429, and a body that does not parse is answered 400.
C13_UnverifiedNeverHandled ==
  /\ [](\A r \in Reqs :
          /\ Unverified(r) => UnverifiedEnds(r)
          /\ req[r].op \in HandlerOps => req[r].user \in Users)
  /\ [][\A r \in Reqs :
          (pc[r] = "idle" /\ Unverified(r)')
            => UNCHANGED <<orders, orderItems, tx, nextId>>]_vars

\* C13 as stated: every request to an order endpoint without a valid bearer
\* credential is answered 401 with error 'Unauthorized'.
C13_AlwaysUnauthorized ==
  \A r \in Reqs :
    Unverified(r) => pc[r] = "done" /\ resp[r].status = 401 /\ resp[r].error = "Unauthorized"

C13_Witness ==
  \E r, q \in Reqs :
    /\ Unverified(r) /\ req[r].authorization = Header("Bearer", "forged")
    /\ req[r].method = "GET" /\ req[r].url = "/api/orders"
    /\ resp[r] = Unauthorized("Invalid or expired token")
    /\ req[q].op = "getOrders" /\ req[q].user = Alice /\ pc[q] = "done"
    /\ resp[q].status = 200
    /\ orders # {}

\* ---- C16
Unregistered(r) ==
  /\ req[r].op = "http"
  /\ req[r].method # "OPTIONS" /\ ~req[r].overLimit /\ ~req[r].malformed
  /\ \/ req[r].url \notin OrderUrls
     \/ ValidCredential(req[r].authorization) /\ RouteOf(req[r].method, req[r].url) = ""

\* C16: a request for a route that is not registered is answered 404 with
\* error 'Not Found' and the message 'Route <METHOD> <url> not found', which
\* names the request's method and its URL.
C16_NotFoundNamesMethod ==
  \A r \in Reqs :
    Unregistered(r) =>
      /\ pc[r] = "done"
      /\ resp[r].status = 404
      /\ resp[r].error = "Not Found"
      /\ resp[r].message = "Route " \o req[r].method \o " " \o req[r].url \o " not found"

\* ---- C15
Listed(r) == req[r].op = "getOrders" /\ pc[r] = "done" /\ resp[r].status = 200

\* C15: the totalPages of a list-orders answer is the ceiling of totalCount
\* divided by pageSize, that is the least number of pages of pageSize orders
\* that hold totalCount orders, for every totalCount >= 0 and pageSize in 1..100.
C15_TotalPagesIsCeiling ==
  \A r \in Reqs :
    Listed(r) =>
      LET p == resp[r].body.pagination
      IN /\ p.pageSize = req[r].pageSize
         /\ p.totalCount = dbOrdersCount(req[r].user.id)
         /\ p.totalPages >= 0
         /\ p.totalPages * p.pageSize >= p.totalCount
         /\ (p.totalPages - 1) * p.pageSize < p.totalCount

C15_Witness ==
  \E r \in Reqs :
    /\ Listed(r)
    /\ resp[r].body.pagination.totalCount = 25
    /\ resp[r].body.pagination.pageSize = 10
    /\ resp[r].body.pagination.totalPages = 3

\* ---- C17
\* C17: a store operation invoked before a backing connection has been
\* established fails at once with the 'not initialized' error and makes no
\* call on the driver.
C17_FailsFastBeforeConnected ==
  \A r \in Reqs :
    (req[r].op = "store" /\ pc[r] = "done" /\ loc[r].pool \in {"null", "connecting", "failed"})
      => loc[r].thrown = PoolNotInitialized /\ ~loc[r].driverCalled

\* ---- C18
\* C18: an admin update-status request on an existing order succeeds from
\* any current status to any of the five statuses: the body is accepted
\* whatever the order's status, the UPDATE sets the requested status on that
\* order whatever it was, and the request is answered 200 unless the store
\* fails; there is no ordering among statuses.
C18_AnyToAnyStatus ==
  /\ [](\A s \in Statuses : updateOrderStatusSchema([status |-> s]) = "")
  /\ [][\A r \in Reqs :
          /\ (AdminUpdate(r) /\ pc[r] = "update" /\ pc'[r] = "refetch")
               => orders' = {IF o.id = req[r].orderId
                               THEN [o EXCEPT !.status = req[r].body.status]
                               ELSE o : o \in orders}
          /\ (AdminUpdate(r) /\ pc[r] \notin {"idle", "done"} /\ pc'[r] = "done"
                /\ \E o \in orders : o.id = req[r].orderId)
               => \/ resp'[r].status = 200 /\ resp'[r].body.id = req[r].orderId
                  \/ resp'[r] \in DbErrorResponses]_vars

\* delivered -> pending: one admin request set the order to delivered and read
\* it back, a later one set it to pending
C18_Witness ==
  \E r, q \in Reqs :
    /\ AdminUpdate(r) /\ AdminUpdate(q) /\ req[r].orderId = req[q].orderId
    /\ pc[r] = "done" /\ pc[q] = "done"
    /\ req[q].body.status = "delivered"
    /\ resp[q].status = 200 /\ resp[q].body.status = "delivered"
    /\ req[r].body.status = "pending"
    /\ resp[r].status = 200 /\ resp[r].body.status = "pending"
    /\ \E o \in orders : o.id = req[r].orderId /\ o.status = "pending"

\* ---- C19
ItemRowsOf(rows, orderId) == {it \in rows : it.orderId = orderId}

\* C19: once an order is stored, no operation changes its items, their
\* quantities and prices, its totalAmount, currency, orderNumber, customerId
\* or customerEmail: a step of update-status or cancel changes at most the
\* status of the order it names, and a step of get or list changes nothing.
C19_OrderFrame ==
  [][/\ \A o \in orders :
          /\ \E p \in orders' : p.id = o.id /\ [p EXCEPT !.status = o.status] = o
          /\ ItemRowsOf(orderItems', o.id) = ItemRowsOf(orderItems, o.id)
     /\ \A r \in Reqs :
          /\ (req'[r].op \in {"getOrders", "getOrderById"} /\ pc'[r] # pc[r])
               => orders' = orders /\ orderItems' = orderItems
          /\ (req'[r].op \in {"updateOrderStatus", "cancelOrder"} /\ pc'[r] # pc[r])
               => /\ orderItems' = orderItems
                  /\ \A o \in orders : o.id # req'[r].orderId => o \in orders'
                  /\ \A p \in orders' : \E o \in orders : o.id = p.id]_vars

C19_Witness ==
  \E r \in Reqs, o \in orders :
    /\ o.status = "cancelled" /\ o.totalAmount = 2500 /\ o.orderNumber \in OrderNumbers
    /\ Cardinality(ItemRowsOf(orderItems, o.id)) = 2
    /\ req[r].op = "getOrderById" /\ pc[r] = "done"
    /\ resp[r].status = 200 /\ resp[r].body.id = o.id /\ resp[r].body.status = "cancelled"
    /\ resp[r].body.totalAmount = 2500

\* ---- C20
\* the outcome of the publish attempt of request r, "" while it has made none
Published(r) == IF loc[r] = NoLocals THEN "" ELSE loc[r].published

Writing(r) == req[r].op \in {"createOrder", "updateOrderStatus", "cancelOrder"}

\* C20: an order event is published only after the store write of its
\* operation has succeeded. A create, update-status or cancel that is
\* answered 201 or 200 has made exactly one publish attempt, in the step
\* before its answer and after its write and re-read; a request that ends in
\* a validation error, 403, 404, domain 400 or store failure has made none.
C20_PublishAfterWrite ==
  /\ [](\A r \in Reqs :
          Writing(r) =>
            /\ (pc[r] = "done" /\ resp[r].status \in {200, 201})
                 => Published(r) \in {"ok", "failed"}
            /\ (pc[r] = "done" /\ resp[r].status >= 400) => Published(r) = ""
            /\ pc[r] # "done" => Published(r) = "")
  /\ [][\A r \in Reqs :
          /\ (Writing(r) /\ Published(r)' # Published(r) /\ pc'[r] # "idle")
               => PublishSettles(r) /\ Published(r) = ""
          /\ (pc'[r] = "publish" /\ pc[r] # "publish") => pc[r] = "refetch"
          /\ (pc'[r] = "refetch" /\ pc[r] # "refetch")
               => IF req[r].op = "createOrder"
                    THEN pc[r] = "commit" /\ tx[r].order \in orders'
                    ELSE pc[r] = "update"
                         /\ orders' = dbSetStatus(loc[r].orderId, loc[r].status)]_vars

\* a cancel answered 200 after its one publish, and a second cancel of the
\* same order answered 400 without any
C20_Witness ==
  \E r, q \in Reqs :
    /\ req[r].op = "cancelOrder" /\ pc[r] = "done" /\ resp[r].status = 200
    /\ Published(r) = "ok"
    /\ req[q].op = "cancelOrder" /\ pc[q] = "done" /\ req[q].orderId = req[r].orderId
    /\ resp[q].status = 400 /\ resp[q].message = "Order is already cancelled"
    /\ Published(q) = ""

\* ---- C21
\* request r was rejected by a schema or for the caller's missing admin role
RejectedUnread(r) ==
  /\ pc[r] = "done"
  /\ \/ resp[r].error = "Validation Error"
     \/ resp[r].status = 403

\* request r is a get or cancel of an order of another customer by a non-admin
ForeignAccess(r) ==
  /\ req[r].op \in {"getOrderById", "cancelOrder"} /\ ~IsAdmin(req[r].user)
  /\ \E o \in orders : o.id = req[r].orderId /\ o.customerId # req[r].user.id

\* C21 (as the handlers behave): the schema of list, create and update-status
\* and the admin check of update-status reject a request before any store
\* access; the ownership check of get and cancel needs the order and is made
\* after the store has been read; no rejected request has written to the store.
C21_ChecksBeforeWrites ==
  /\ [](\A r \in Reqs :
          /\ RejectedUnread(r) => ~storeAccess[r]
          /\ (ForeignAccess(r) /\ pc[r] = "done") => storeAccess[r]
          /\ storeAccess[r] => pc[r] # "idle")
  /\ [][\A r \in Reqs :
          (pc[r] = "idle" /\ pc'[r] = "done")
            => UNCHANGED <<orders, orderItems, tx, nextId>>]_vars

\* C21 as stated: a request rejected by validation or authorization has made
\* no store access.
C21_ChecksBeforeAnyAccess ==
  \A r \in Reqs :
    (RejectedUnread(r) \/ (ForeignAccess(r) /\ pc[r] = "done" /\ resp[r].status = 404))
      => ~storeAccess[r]

C21_Witness ==
  \E r, q \in Reqs :
    /\ req[r].op = "createOrder" /\ pc[r] = "done"
    /\ resp[r].error = "Validation Error" /\ ~storeAccess[r]
    /\ ForeignAccess(q) /\ req[q].op = "getOrderById" /\ pc[q] = "done"
    /\ resp[q].status = 404 /\ storeAccess[q]

\* ---- C22
\* request r is an admin's valid update-status of an order the store holds
UpdateOf(r, orderId) ==
  /\ AdminUpdate(r) /\ req[r].orderId = orderId
  /\ \E o \in orders : o.id = orderId

\* r and q are two such requests on one order, both before their answer
Racing(r, q) ==
  /\ r # q
  /\ UpdateOf(r, req[r].orderId) /\ UpdateOf(q, req[r].orderId)
  /\ pc[r] \in {"update", "refetch", "publish"}
  /\ pc[q] \in {"update", "refetch", "publish"}

\* C22: of two update-status requests running concurrently on one existing
\* order, each UPDATE takes effect whatever the other has written, so the
\* stored status is the one written last; no other step of the two changes
\* the order, and neither is rejected for a conflict: each is answered 200
\* unless a store call fails.
C22_LastWriterWins ==
  [][\A r, q \in Reqs :
       Racing(r, q) =>
         /\ (pc'[r] = "refetch" /\ pc[r] = "update")
              => \E o \in orders' : o.id = req[r].orderId /\ o.status = req[r].body.status
         /\ (pc'[r] # pc[r] /\ pc[r] # "update") => orders' = orders
         /\ pc'[r] = "done"
              => \/ resp'[r].status = 200 /\ resp'[r].body.id = req[r].orderId
                 \/ resp'[r] \in DbErrorResponses]_vars

\* both answered 200 with different statuses; the store holds the one of q
C22_Witness ==
  \E r, q \in Reqs :
    /\ r # q /\ UpdateOf(r, req[r].orderId) /\ UpdateOf(q, req[r].orderId)
    /\ pc[r] = "done" /\ pc[q] = "done"
    /\ resp[r].status = 200 /\ resp[q].status = 200
    /\ req[r].body.status = "shipped" /\ req[q].body.status = "processing"
    /\ resp[r].body.status = "processing" /\ resp[q].body.status = "processing"
    /\ \E o \in orders : o.id = req[r].orderId /\ o.status = "processing"

\* ---- C23
\* C23: a create, update-status or cancel whose store write has succeeded and
\* which has started its publish attempt eventually sends its response, also
\* when the publish attempt never completes.
C23_ResponseDespitePublish ==
  \A r \in Reqs : (pc[r] = "publish") ~> (pc[r] = "done")

\* ---- C24
\* the orders of customerId, and how many of them are newer than order o
OrdersOf(customerId) == {o \in orders : o.customerId = customerId}
NewerThan(o) == Cardinality({x \in OrdersOf(o.customerId) : x.id > o.id})

\* how many orders page `page` of `pageSize` holds when there are n in all
PageLength(n, page, pageSize) ==
  LET rest == n - (page - 1) * pageSize
  IN IF rest <= 0 THEN 0 ELSE IF rest < pageSize THEN rest ELSE pageSize

\* C24: for page p >= 1 and pageSize s in 1..100 a list-orders answer holds at
\* most s orders: the caller's orders at positions (p-1)*s+1 .. p*s of the
\* caller's orders newest first, each with its own items, and the count of
\* all the caller's orders.
C24_PageOfOwnOrders ==
  \A r \in Reqs :
    Listed(r) =>
      LET page == req[r].page
          pageSize == req[r].pageSize
          mine == OrdersOf(req[r].user.id)
          listed == resp[r].body.orders
      IN /\ page >= MinPage /\ pageSize \in MinPageSize..MaxPageSize
         /\ Len(listed) = PageLength(Cardinality(mine), page, pageSize)
         /\ Len(listed) <= pageSize
         /\ \A i \in 1..Len(listed) :
              \E o \in mine :
                /\ o.id = listed[i].id
                /\ NewerThan(o) = (page - 1) * pageSize + i - 1
                /\ listed[i].orderNumber = o.orderNumber
                /\ listed[i].status = o.status
                /\ listed[i].totalAmount = o.totalAmount
                /\ listed[i].orderItems = ItemRowsOf(orderItems, o.id)
         /\ resp[r].body.pagination.totalCount = Cardinality(mine)

\* page 2 of 25 orders by 10: the 11th to the 20th newest, ids 15 down to 6
C24_Witness ==
  \E r \in Reqs :
    /\ Listed(r) /\ req[r].page = 2 /\ req[r].pageSize = 10
    /\ resp[r].body.pagination.totalCount = 25
    /\ Len(resp[r].body.orders) = 10
    /\ resp[r].body.orders[1].id = 15 /\ resp[r].body.orders[10].id = 6

\* ---- C25
\* C25: a query whose request the API service answered with a 4xx status is
\* never fetched again, and a query failing for another reason is fetched
\* again at most 3 times.
C25_NoRetryOnClientError ==
  /\ query.failureCount <= 3
  /\ (query.status = "fetching" /\ query.failureCount > 0)
       => ~(query.answered >= 400 /\ query.answered < 500)

\* ---- C26
\* the stored status of the order with this id
StoredStatus(orderId) == (CHOOSE o \in orders : o.id = orderId).status

\* C26: the UPDATE of a cancel request writes status cancelled only onto an
\* order whose stored status at that moment is pending or processing,
\* whatever update-status requests run concurrently.
C26_CancelWritesOnlyOpenOrders ==
  [][\A r \in Reqs :
       (req[r].op = "cancelOrder" /\ pc[r] = "update" /\ pc'[r] = "refetch"
         /\ \E o \in orders : o.id = req[r].orderId)
         => StoredStatus(req[r].orderId) \in {"pending", "processing"}]_vars

\* ---- C27
\* request r is a cancel of this order that was answered 200
Cancelled(r, orderId) ==
  /\ req[r].op = "cancelOrder" /\ req[r].orderId = orderId
  /\ pc[r] = "done" /\ resp[r].status = 200

\* C27: of the cancel requests that read an order as pending or processing
\* and run concurrently, at most one is answered 200 and at most one
\* publishes order.cancelled.
C27_OneCancelWins ==
  \A r, q \in Reqs :
    (r # q /\ Cancelled(r, req[r].orderId) /\ Cancelled(q, req[r].orderId)
      /\ loc[r].currentOrder = loc[q].currentOrder)
      => FALSE

\* ---- C28
\* C28: a create-order request answered with an error has left no order row
\* and no item row in the store, whatever step failed.
C28_FailedCreateLeavesNothing ==
  \A r \in Reqs :
    (req[r].op = "createOrder" /\ pc[r] = "done" /\ resp[r].status >= 400
      /\ loc[r] # NoLocals)
      => /\ loc[r].orderId # 0 => ~\E o \in orders : o.id = loc[r].orderId
         /\ loc[r].orderId # 0 => ItemRowsOf(orderItems, loc[r].orderId) = {}

\* ---- C29
\* C29: the order in a 200 answer of update-status has the status requested,
\* and the order in a 200 answer of cancel has status cancelled.
C29_AnswerShowsOwnWrite ==
  \A r \in Reqs :
    (pc[r] = "done" /\ resp[r].status = 200 /\ resp[r].body # NoOrder)
      => /\ req[r].op = "updateOrderStatus" => resp[r].body.status = req[r].body.status
         /\ req[r].op = "cancelOrder" => resp[r].body.status = "cancelled"

\* ---------------------------------------------------------------- event notifier
\* ServiceBusService as constructed: client and topicSender are null (0), no
\* client has been created; keyVaultClient exists when KEY_VAULT_URL is set
\* (and SERVICE_BUS_CONNECTION_STRING is not, so that initialize() asks it)
BusNull(keyVault) ==
  [client |-> 0, topicSender |-> 0, created |-> 0, closed |-> {}, closing |-> FALSE,
   keyVaultClient |-> keyVault]

\* initialize(), from the end of the Key Vault block to its return:
\* this.client = new ServiceBusClient(...); this.topicSender = client.createSender(...)
newServiceBusClient ==
  [bus EXCEPT !.created = @ + 1, !.client = bus.created + 1,
              !.topicSender = bus.created + 1]

\* a handler calls publishOrderEvent: with a sender it goes to sendMessages;
\* without one it runs initialize(), which suspends at getSecret when the Key
\* Vault is asked and otherwise runs to its end before anything else can run
\* (new ServiceBusClient throws on a malformed connection string)
ServiceBusService_publishOrderEvent(r) ==
  /\ pc[r] = "idle"
  /\ served < MaxRequests
  /\ served' = served + 1
  /\ req' = [req EXCEPT ![r] = [op |-> "publishOrderEvent"]]
  /\ IF bus.topicSender # 0
       THEN /\ pc' = [pc EXCEPT ![r] = "sendMessages"]
            /\ loc' = [loc EXCEPT ![r] = [orderId |-> 0, sender |-> bus.topicSender]]
            /\ UNCHANGED bus
       ELSE IF bus.keyVaultClient
         THEN /\ pc' = [pc EXCEPT ![r] = "getSecret"]
              /\ UNCHANGED <<loc, bus>>
         ELSE \/ /\ bus' = newServiceBusClient
                 /\ pc' = [pc EXCEPT ![r] = "initialize"]
                 /\ UNCHANGED loc
              \/ /\ pc' = [pc EXCEPT ![r] = "done"]
                 /\ loc' = [loc EXCEPT ![r] = [orderId |-> 0, sender |-> 0]]
                 /\ UNCHANGED bus
  /\ UNCHANGED <<orders, orderItems, tx, nextId, resp, pool, storeAccess, query>>

\* getSecret settles (a rejection is caught and logged): initialize() goes on
\* to create the client and the sender, whatever this.client holds by now
getSecretSettles(r) ==
  /\ pc[r] = "getSecret"
  /\ \/ /\ bus' = newServiceBusClient
        /\ pc' = [pc EXCEPT ![r] = "initialize"]
        /\ UNCHANGED loc
     \/ /\ pc' = [pc EXCEPT ![r] = "done"]
        /\ loc' = [loc EXCEPT ![r] = [orderId |-> 0, sender |-> 0]]
        /\ UNCHANGED bus
  /\ UNCHANGED <<orders, orderItems, tx, nextId, req, resp, served, pool, storeAccess, query>>

\* `await this.initialize()` resumes: the second test of this.topicSender,
\* then this.topicSender.sendMessages(message) on the sender held now
initializeSettles(r) ==
  /\ pc[r] = "initialize"
  /\ IF bus.topicSender = 0
       THEN pc' = [pc EXCEPT ![r] = "done"]
       ELSE pc' = [pc EXCEPT ![r] = "sendMessages"]
  /\ loc' = [loc EXCEPT ![r] = [orderId |-> 0, sender |-> bus.topicSender]]
  /\ UNCHANGED <<orders, orderItems, tx, nextId, req, resp, served, pool, storeAccess,
                 bus, query>>

\* sendMessages settles, resolved or rejected: publishOrderEvent returns or throws
sendMessagesSettles(r) ==
  /\ pc[r] = "sendMessages"
  /\ pc' = [pc EXCEPT ![r] = "done"]
  /\ \E sent \in BOOLEAN :
       loc' = [loc EXCEPT ![r] = [orderId |-> 0,
                                  sender |-> IF sent THEN loc[r].sender ELSE 0]]
  /\ UNCHANGED <<orders, orderItems, tx, nextId, req, resp, served, pool, storeAccess,
                 bus, query>>

\* close() up to `await this.topicSender.close()`; without a sender it goes
\* straight to the client, which it closes when there is one
ServiceBusService_close ==
  /\ ~bus.closing
  /\ bus.created > 0
  /\ IF bus.topicSender # 0
       THEN bus' = [bus EXCEPT !.closing = TRUE]
       ELSE bus' = [bus EXCEPT !.closed = IF bus.client # 0 THEN @ \cup {bus.client} ELSE @]
  /\ UNCHANGED <<orders, orderItems, tx, nextId, pc, req, loc, resp, served, pool,
                 storeAccess, query>>

\* close() after the sender has closed: `await this.client.close()` on the
\* client held now; neither field is reset to null
senderCloseSettles ==
  /\ bus.closing
  /\ bus' = [bus EXCEPT !.closing = FALSE,
                        !.closed = IF bus.client # 0 THEN @ \cup {bus.client} ELSE @]
  /\ UNCHANGED <<orders, orderItems, tx, nextId, pc, req, loc, resp, served, pool,
                 storeAccess, query>>

\* server.ts never initializes the notifier: the first publishOrderEvent of
\* the process meets client = topicSender = null
InitBus ==
  /\ orders = {}
  /\ orderItems = {}
  /\ tx = [r \in Reqs |-> NoTx]
  /\ nextId = 1
  /\ served = 0
  /\ pool = "connected"
  /\ storeAccess = [r \in Reqs |-> FALSE]
  /\ \E keyVault \in BOOLEAN : bus = BusNull(keyVault)
  /\ query = NoQuery
  /\ pc = [r \in Reqs |-> "idle"]
  /\ req = [r \in Reqs |-> Idle]
  /\ loc = [r \in Reqs |-> NoLocals]
  /\ resp = [r \in Reqs |-> NoResponse]

NextBus ==
  \/ \E r \in Reqs :
       \/ ServiceBusService_publishOrderEvent(r)
       \/ getSecretSettles(r)
       \/ initializeSettles(r)
       \/ sendMessagesSettles(r)
       \/ Ack(r)
  \/ ServiceBusService_close
  \/ senderCloseSettles

SpecBus == InitBus /\ [][NextBus]_vars

\* C30: the lazy initialization of the event notifier runs at most once per
\* process: at most one Service Bus client (and topic sender) is ever created,
\* so every client created is the one the notifier holds
C30_LazyInitializationRunsOnce ==
  /\ bus.created <= 1
  /\ \A c \in 1..bus.created : c = bus.client
====
